---- MODULE Spec2Model ----
(***************************************************************************)
(* Verification model of the CPA_AGENTS data-normalization and scoring     *)
(* pipeline: the evaluator-block segmenter (data_cleaner.py), the recency  *)
(* weight functions (data_ingestion_agent.py, data_helpers.py), the        *)
(* weighted aggregators and the trend classifiers                          *)
(* (numeric_analysis_agent.py, data_helpers.py), the pattern confidence    *)
(* and the text analysis run (text_analysis_agent.py), and the run of the  *)
(* six stages over the shared memory (orchestrator_agent.py,               *)
(* shared_memory.py).                                                      *)
(*                                                                         *)
(* Conventions.                                                            *)
(*  - Python floats are modelled as exact rationals [n, d] in lowest terms *)
(*    with d > 0; the value with d = 0 stands for a raised                 *)
(*    ZeroDivisionError.                                                   *)
(*  - A date text is modelled by its lexical shape: separator, the three   *)
(*    numeric fields, and whether a time part follows.  strptime is        *)
(*    modelled per format on that shape.                                   *)
(*  - Each component has its own specification; the variables of the other *)
(*    components stay at their idle values.                                *)
(***************************************************************************)
EXTENDS Integers, Sequences, FiniteSets, TLC

VARIABLES
    \* recency weight functions
    date_str,           \* the release date text handed to the function
    current_date,       \* datetime.now()
    recency_weight,     \* the returned weight
    rw_by,              \* "none" | "agent" | "helper": which function returned it
    \* weighted aggregators
    values,             \* the values argument
    weights,            \* the weights argument (WNone models None)
    wm_result,          \* the returned mean
    wm_by,              \* "none" | "agent" | "helper"
    \* trend classifiers
    scores_with_dates,  \* the list of {"date", "score", "weight"} items
    trend_result,       \* the returned dict
    trend_by,           \* "none" | "agent" | "helper"
    \* evaluator-block segmenter
    df,                 \* the raw long-format table (sequence of rows)
    form_df,            \* the group handed to _identify_evaluator_blocks
    evaluator_blocks,   \* the blocks it returned
    clean_data,         \* the table returned by _process_data
    seg_pc,             \* "start" | "blocks" | "processed"
    \* ingestion and numeric analysis
    raw_table,          \* the rows handed to the pipeline
    today,              \* datetime.now() of the ingestion
    temporal_dimension, \* structured_query["temporal_dimension"] at the analysis
    parsed_data,        \* the records the ingestion stored
    temporal_analysis,  \* what _analyze_temporal_progression returned
    numeric_analysis,   \* the stored numeric analysis
    num_pc,             \* "start" | "ingested" | "analysed"
    \* pattern confidence and text analysis
    supporting_evidence, \* the evidence list handed to _calculate_pattern_confidence
    confidence_info,    \* what it returned
    text_rows,          \* parsed_data of the text analysis
    text_query,         \* structured_query of the text analysis
    llm_answer,         \* the competency analysis of the LLM's answer
    text_analysis,      \* the stored competency analysis
    text_pc,            \* "evidence" | "scored" | "start" | "done"
    \* direction rules of the two analyses
    change_value,       \* the change handed to a direction rule
    direction,          \* the direction it assigned
    direction_by,       \* "none" | "temporal" | "trend": which rule assigned it
    \* orchestrated pipeline run
    orch_pc,            \* the position of OrchestratorAgent.run
    memory,             \* SharedMemory._memory
    session_memory,     \* SharedMemory._session_memory
    stage_log,          \* the stages whose run was called, in call order
    write_log,          \* the SharedMemory.set calls of the run, in order
    read_log,           \* the SharedMemory.get calls of the run
    response            \* what OrchestratorAgent.run returned

recVars   == <<date_str, current_date, recency_weight, rw_by>>
wmVars    == <<values, weights, wm_result, wm_by>>
trendVars == <<scores_with_dates, trend_result, trend_by>>
segVars   == <<df, form_df, evaluator_blocks, clean_data, seg_pc>>
numVars == <<raw_table, today, temporal_dimension, parsed_data, temporal_analysis, numeric_analysis, num_pc>>
textVars == <<supporting_evidence, confidence_info, text_rows, text_query, llm_answer, text_analysis, text_pc>>
dirVars == <<change_value, direction, direction_by>>
orchVars == <<orch_pc, memory, session_memory, stage_log, write_log, read_log, response>>
vars      == <<date_str, current_date, recency_weight, rw_by,
               values, weights, wm_result, wm_by,
               scores_with_dates, trend_result, trend_by,
               df, form_df, evaluator_blocks, clean_data, seg_pc,
               raw_table, today, temporal_dimension, parsed_data, temporal_analysis, numeric_analysis, num_pc,
               supporting_evidence, confidence_info, text_rows, text_query, llm_answer, text_analysis, text_pc,
               change_value, direction, direction_by,
               orch_pc, memory, session_memory, stage_log, write_log, read_log, response>>

(***************************************************************************)
(* Exact arithmetic standing for Python float arithmetic.                  *)
(***************************************************************************)
Abs(x) == IF x < 0 THEN -x ELSE x

RECURSIVE GCD(_, _)
GCD(a, b) == IF b = 0 THEN a ELSE GCD(b, a % b)

\* n/d in lowest terms; d = 0 is the raised ZeroDivisionError
Rat(n, d) ==
    IF d = 0 THEN [n |-> 0, d |-> 0]
    ELSE LET s == IF d < 0 THEN -1 ELSE 1
             g == GCD(Abs(n), Abs(d))
         IN  [n |-> (s * n) \div g, d |-> (s * d) \div g]

RInt(k)    == [n |-> k, d |-> 1]
Raised(x)  == x.d = 0
RAdd(x, y) == Rat(x.n * y.d + y.n * x.d, x.d * y.d)
RSub(x, y) == Rat(x.n * y.d - y.n * x.d, x.d * y.d)
RMul(x, y) == Rat(x.n * y.n, x.d * y.d)
RDiv(x, y) == Rat(x.n * y.d, x.d * y.n)
RLt(x, y)  == x.n * y.d < y.n * x.d
RLe(x, y)  == x.n * y.d <= y.n * x.d
RAbs(x)    == [n |-> Abs(x.n), d |-> x.d]
RMin(x, y) == IF RLe(x, y) THEN x ELSE y

RECURSIVE RSum(_)
RSum(s) == IF s = <<>> THEN RInt(0) ELSE RAdd(Head(s), RSum(Tail(s)))

(***************************************************************************)
(* Date texts and datetime.strptime.                                       *)
(***************************************************************************)
\* form "num":  <a><sep><b><sep><c>, followed by " h:mm" when time is TRUE
\* form "name": "<MonthName a> <b>, <c>"        (strptime's %B %d, %Y)
\* form "junk": a non-empty text that is no date; "empty": ''; "None": None
\* form "nan":  float('nan'), the value pandas.read_csv gives a blank cell
DateText(form, sep, a, b, c, time) ==
    [form |-> form, sep |-> sep, a |-> a, b |-> b, c |-> c, time |-> time]

NoneText  == DateText("None", "", 0, 0, 0, FALSE)
EmptyText == DateText("empty", "", 0, 0, 0, FALSE)
JunkText  == DateText("junk", "", 0, 0, 0, FALSE)
NanText   == DateText("nan", "", 0, 0, 0, FALSE)

\* Python truthiness of the value (nan is truthy)
Truthy(t) == t.form \notin {"None", "empty"}

NoDate == [year |-> 0, month |-> 0, day |-> 0]
DateTime(y, m, d) == [year |-> y, month |-> m, day |-> d]

\* stands for the TypeError strptime raises on a value that is not a str
TypeErr == [year |-> -1, month |-> 0, day |-> 0]

Digits(k) == IF k < 10 THEN 1 ELSE IF k < 100 THEN 2 ELSE IF k < 1000 THEN 3 ELSE 4

IsLeap(y) == (y % 4 = 0 /\ y % 100 # 0) \/ y % 400 = 0

DaysIn(y, m) ==
    IF m = 2 THEN (IF IsLeap(y) THEN 29 ELSE 28)
    ELSE IF m \in {4, 6, 9, 11} THEN 30 ELSE 31

\* a calendar date datetime() accepts
ValidYMD(y, m, d) == m \in 1..12 /\ d >= 1 /\ d <= DaysIn(y, m)

\* %y: two digits, 69..99 -> 19xx, 00..68 -> 20xx
Year2(c) == IF c >= 69 THEN 1900 + c ELSE 2000 + c

\* datetime.strptime(t, fmt); NoDate stands for the ValueError
Strptime(t, fmt) ==
    IF t.form = "nan" THEN TypeErr
    ELSE IF t.form = "name"
    THEN IF fmt = "%B %d, %Y" /\ Digits(t.c) = 4 /\ ValidYMD(t.c, t.a, t.b)
         THEN DateTime(t.c, t.a, t.b) ELSE NoDate
    ELSE IF t.form # "num" \/ t.time THEN NoDate
    ELSE CASE fmt = "%Y-%m-%d" ->
                IF t.sep = "-" /\ Digits(t.a) = 4 /\ ValidYMD(t.a, t.b, t.c)
                THEN DateTime(t.a, t.b, t.c) ELSE NoDate
           [] fmt = "%Y/%m/%d" ->
                IF t.sep = "/" /\ Digits(t.a) = 4 /\ ValidYMD(t.a, t.b, t.c)
                THEN DateTime(t.a, t.b, t.c) ELSE NoDate
           [] fmt = "%m/%d/%y" ->
                IF t.sep = "/" /\ Digits(t.c) = 2 /\ ValidYMD(Year2(t.c), t.a, t.b)
                THEN DateTime(Year2(t.c), t.a, t.b) ELSE NoDate
           [] fmt = "%m/%d/%Y" ->
                IF t.sep = "/" /\ Digits(t.c) = 4 /\ ValidYMD(t.c, t.a, t.b)
                THEN DateTime(t.c, t.a, t.b) ELSE NoDate
           [] fmt = "%d/%m/%Y" ->
                IF t.sep = "/" /\ Digits(t.c) = 4 /\ ValidYMD(t.c, t.b, t.a)
                THEN DateTime(t.c, t.b, t.a) ELSE NoDate
           [] OTHER -> NoDate

\* the first format of the list that parses, else NoDate; the loop catches
\* ValueError only, so a TypeError leaves it at once
RECURSIVE TryFormats(_, _)
TryFormats(t, fmts) ==
    IF fmts = <<>> THEN NoDate
    ELSE IF Strptime(t, Head(fmts)) # NoDate THEN Strptime(t, Head(fmts))
    ELSE TryFormats(t, Tail(fmts))

AgentDateFormats == <<"%Y-%m-%d", "%m/%d/%y", "%m/%d/%Y", "%d/%m/%Y", "%Y/%m/%d">>

HelperDateFormats == <<"%Y-%m-%d", "%m/%d/%y", "%m/%d/%Y", "%d/%m/%Y", "%B %d, %Y">>

\* data_helpers.parse_date (TypeErr: the TypeError propagates)
parse_date(t) == IF ~Truthy(t) THEN NoDate ELSE TryFormats(t, HelperDateFormats)

(***************************************************************************)
(* Recency weight.                                                         *)
(***************************************************************************)
FullWeightMonths == 3
ZeroWeightMonths == 9

months_difference(now, d) == (now.year - d.year) * 12 + (now.month - d.month)

\* a variant of the weighting rule that decays over nine months instead of six
WeightingRuleDecayOverNine(m) ==
    IF m <= 3 THEN RInt(1)
    ELSE IF m >= 9 THEN RInt(0)
    ELSE RSub(RInt(1), RDiv(RInt(m - 3), RInt(9)))

\* the weighting rule shared by both functions
WeightingRule(m) ==
    IF m <= FullWeightMonths THEN RInt(1)
    ELSE IF m >= ZeroWeightMonths THEN RInt(0)
    ELSE RSub(RInt(1), RDiv(RInt(m - FullWeightMonths), RInt(6)))

\* the float result of a call that raised instead of returning
ErrorRaised == [n |-> 0, d |-> 0]

\* DataIngestionAgent._calculate_recency_weight; its outer "except Exception"
\* turns the TypeError into 0.5
AgentRecencyWeight(t, now) ==
    IF ~Truthy(t) THEN RInt(0)
    ELSE LET release_date == TryFormats(t, AgentDateFormats)
         IN  IF release_date = TypeErr THEN Rat(1, 2)
             ELSE IF release_date = NoDate THEN Rat(1, 2)
             ELSE WeightingRule(months_difference(now, release_date))

\* data_helpers.calculate_recency_weight; nothing catches the TypeError
HelperRecencyWeight(t, now) ==
    IF ~Truthy(t) THEN Rat(1, 2)
    ELSE LET date_obj == parse_date(t)
         IN  IF date_obj = TypeErr THEN ErrorRaised
             ELSE IF date_obj = NoDate THEN Rat(1, 2)
             ELSE WeightingRule(months_difference(now, date_obj))

(***************************************************************************)
(* Specification of the recency weight functions: a date text and a        *)
(* current date are drawn, then one of the two functions is applied.       *)
(***************************************************************************)
\* numeric fields a date text is built from: months, days, 2- and 4-digit years
DateFieldValues == {1, 4, 7, 10, 13, 22, 23, 2022, 2023}

DateTexts ==
    {DateText("num", s, a, b, c, FALSE) :
        s \in {"-", "/"}, a \in DateFieldValues, b \in DateFieldValues, c \in DateFieldValues}
    \cup {DateText("num", "/", a, 1, 23, TRUE) : a \in {1, 4}}
    \cup {DateText("name", ",", a, 1, 2023, FALSE) : a \in {1, 4, 13}}
    \cup {NoneText, EmptyText, JunkText, NanText}

NowDates == {DateTime(2023, m, 15) : m \in 1..12}

RecencyIdle ==
    /\ date_str = NoneText
    /\ current_date = NoDate
    /\ recency_weight = RInt(0)
    /\ rw_by = "none"

CalculateRecencyWeightAgent ==
    /\ rw_by = "none"
    /\ recency_weight' = AgentRecencyWeight(date_str, current_date)
    /\ rw_by' = "agent"
    /\ UNCHANGED <<date_str, current_date>>

CalculateRecencyWeightHelper ==
    /\ rw_by = "none"
    /\ recency_weight' = HelperRecencyWeight(date_str, current_date)
    /\ rw_by' = "helper"
    /\ UNCHANGED <<date_str, current_date>>

(***************************************************************************)
(* Weighted aggregators.                                                   *)
(***************************************************************************)
\* the weights argument: None, or a list
WNone    == [none |-> TRUE, w |-> <<>>]
WList(w) == [none |-> FALSE, w |-> w]

\* Python truthiness of a list-or-None argument
WTruthy(ws) == ~ws.none /\ ws.w # <<>>

\* sum(value * weight for value, weight in zip(values, weights))
RECURSIVE ZipProductSum(_, _)
ZipProductSum(vs, ws) ==
    IF vs = <<>> \/ ws = <<>> THEN RInt(0)
    ELSE RAdd(RMul(Head(vs), Head(ws)), ZipProductSum(Tail(vs), Tail(ws)))

\* a variant of weighted_mean without the zero-total guard
HelperWeightedMeanUnguarded(vs, ws) ==
    IF vs = <<>> THEN RInt(0)
    ELSE IF ~WTruthy(ws) THEN RDiv(RSum(vs), RInt(Len(vs)))
    ELSE IF Len(vs) # Len(ws.w) THEN RDiv(RSum(vs), RInt(Len(vs)))
    ELSE RDiv(ZipProductSum(vs, ws.w), RSum(ws.w))

\* data_helpers.weighted_mean
HelperWeightedMean(vs, ws) ==
    IF vs = <<>> THEN RInt(0)
    ELSE IF ~WTruthy(ws) THEN RDiv(RSum(vs), RInt(Len(vs)))
    ELSE IF Len(vs) # Len(ws.w) THEN RDiv(RSum(vs), RInt(Len(vs)))
    ELSE LET numerator   == ZipProductSum(vs, ws.w)
             denominator == RSum(ws.w)
         IN  IF denominator = RInt(0) THEN RInt(0)
             ELSE RDiv(numerator, denominator)

\* a variant of _weighted_mean that ignores the weights
AgentWeightedMeanPlain(vs, ws) ==
    IF vs = <<>> THEN RInt(0) ELSE RDiv(RSum(vs), RInt(Len(vs)))

\* NumericAnalysisAgent._weighted_mean
AgentWeightedMean(vs, ws) ==
    IF vs = <<>> \/ ~WTruthy(ws) \/ Len(vs) # Len(ws.w) THEN RInt(0)
    ELSE LET numerator   == ZipProductSum(vs, ws.w)
             denominator == RSum(ws.w)
         IN  IF RLt(RInt(0), denominator) THEN RDiv(numerator, denominator)
             ELSE RInt(0)

(***************************************************************************)
(* Specification of the weighted aggregators.                              *)
(***************************************************************************)
MaxValues == 2

\* all sequences over S of length 0..n
SeqsUpTo(S, n) == UNION {[1..k -> S] : k \in 0..n}

MeanValues  == {RInt(2), RInt(3), RInt(4)}
MeanWeights == {RInt(0), Rat(1, 2), RInt(1), RInt(3)}

WmIdle ==
    /\ values = <<>>
    /\ weights = WNone
    /\ wm_result = RInt(0)
    /\ wm_by = "none"

WeightedMeanHelper ==
    /\ wm_by = "none"
    /\ wm_result' = HelperWeightedMean(values, weights)
    /\ wm_by' = "helper"
    /\ UNCHANGED <<values, weights>>

WeightedMeanAgent ==
    /\ wm_by = "none"
    /\ wm_result' = AgentWeightedMean(values, weights)
    /\ wm_by' = "agent"
    /\ UNCHANGED <<values, weights>>

(***************************************************************************)
(* Trend classifiers.                                                      *)
(***************************************************************************)
AgentStableThreshold  == Rat(3, 10)
HelperStableThreshold == Rat(1, 2)

\* NumericAnalysisAgent._parse_date
AgentTrendDateFormats == <<"%Y-%m-%d", "%m/%d/%Y", "%m/%d/%y", "%d/%m/%Y", "%Y/%m/%d">>

\* (TypeErr: the TypeError propagates, the loop catches ValueError only)
AgentParseDate(t) == IF ~Truthy(t) THEN NoDate ELSE TryFormats(t, AgentTrendDateFormats)

\* datetime comparison
DateLt(x, y) ==
    \/ x.year < y.year
    \/ x.year = y.year /\ x.month < y.month
    \/ x.year = y.year /\ x.month = y.month /\ x.day < y.day

\* the list left in its input order
KeepInputOrder(s) == s

\* list.sort(key=lambda x: x["date"]): stable, ascending
RECURSIVE InsertByDate(_, _)
InsertByDate(x, sorted) ==
    IF sorted = <<>> THEN <<x>>
    ELSE IF DateLt(x.date, Head(sorted).date) THEN <<x>> \o sorted
    ELSE <<Head(sorted)>> \o InsertByDate(x, Tail(sorted))

RECURSIVE SortByDate(_)
SortByDate(s) ==
    IF s = <<>> THEN <<>>
    ELSE InsertByDate(s[Len(s)], SortByDate(SubSeq(s, 1, Len(s) - 1)))

\* round(x, 2), half to even, on the exact value; round(nan, 2) is nan
Round2(x) ==
    IF x.d = 0 THEN x ELSE
    LET num  == x.n * 100
        q    == IF num >= 0 THEN num \div x.d ELSE -((-num) \div x.d)
        r    == Abs(num) - Abs(q) * x.d
        sgn  == IF num < 0 THEN -1 ELSE 1
        up   == 2 * r > x.d \/ (2 * r = x.d /\ Abs(q) % 2 = 1)
    IN  Rat(IF up THEN q + sgn ELSE q, 100)

\* the result of a classifier call that raised instead of returning
TrendRaised == [direction |-> "raised", error |-> "TypeError"]

\* parsing the date of some item raises
RaisesOnDate(items, helper) ==
    \E i \in 1..Len(items) :
        (IF helper THEN parse_date(items[i].date) ELSE AgentParseDate(items[i].date)) = TypeErr

\* the items whose date parses, each with its datetime
RECURSIVE ParsedScores(_, _)
ParsedScores(items, helper) ==
    IF items = <<>> THEN <<>>
    ELSE LET item == Head(items)
             d    == IF helper THEN parse_date(item.date) ELSE AgentParseDate(item.date)
             rest == ParsedScores(Tail(items), helper)
         IN  IF d # NoDate
             THEN <<[date |-> d, score |-> item.score, weight |-> item.weight]>> \o rest
             ELSE rest

\* the direction rule of both classifiers, by its threshold
TrendDirection(change, threshold) ==
    IF RLt(RAbs(change), threshold) THEN "stable"
    ELSE IF RLt(RInt(0), change) THEN "improving" ELSE "declining"

TrendMagnitude(change) == RMin(RInt(1), RDiv(RAbs(change), RInt(4)))

\* strftime('%Y-%m')
YearMonth(d) == <<d.year, d.month>>

\* NumericAnalysisAgent._calculate_trend_fixed
AgentCalculateTrend(items) ==
    IF Len(items) < 2 THEN [direction |-> "stable", magnitude |-> RInt(0)]
    ELSE IF RaisesOnDate(items, FALSE) THEN TrendRaised
    ELSE LET parsed_scores == ParsedScores(items, FALSE)
         IN  IF Len(parsed_scores) < 2
             THEN [direction |-> "stable", magnitude |-> RInt(0)]
             ELSE LET sorted      == SortByDate(parsed_scores)
                      earliest    == sorted[1].score
                      most_recent == sorted[Len(sorted)].score
                      change      == RSub(most_recent, earliest)
                  IN  [direction         |-> TrendDirection(change, AgentStableThreshold),
                       magnitude         |-> Round2(TrendMagnitude(change)),
                       change            |-> Round2(change),
                       earliest_score    |-> earliest,
                       most_recent_score |-> most_recent,
                       time_span         |-> <<YearMonth(sorted[1].date),
                                               YearMonth(sorted[Len(sorted)].date)>>]

\* data_helpers.calculate_trend (every item carries a score)
HelperCalculateTrend(items) ==
    IF Len(items) < 2
    THEN [direction |-> "stable", magnitude |-> RInt(0), change |-> RInt(0)]
    ELSE IF RaisesOnDate(items, TRUE) THEN TrendRaised
    ELSE LET dated_scores == ParsedScores(items, TRUE)
         IN  IF Len(dated_scores) < 2
             THEN [direction |-> "stable", magnitude |-> RInt(0), change |-> RInt(0)]
             ELSE LET sorted      == SortByDate(dated_scores)
                      earliest    == sorted[1].score
                      most_recent == sorted[Len(sorted)].score
                      change      == RSub(most_recent, earliest)
                  IN  [direction |-> TrendDirection(change, HelperStableThreshold),
                       magnitude |-> Round2(TrendMagnitude(change)),
                       change    |-> Round2(change)]

(***************************************************************************)
(* Specification of the trend classifiers.                                 *)
(***************************************************************************)
MaxObservations == 3

TrendDates ==
    {DateText("num", "-", 2023, 1, 1, FALSE),
     DateText("num", "-", 2023, 4, 1, FALSE),
     DateText("num", "/", 7, 1, 23, FALSE),
     JunkText, NanText}

TrendScores  == {RInt(1), Rat(129, 100), Rat(13, 10)}
TrendWeights == {Rat(1, 2), RInt(1)}

\* observations: the parseable dates with every score, the middle date also
\* with the lower weight, and the unparseable dates
TrendItems ==
    [date : TrendDates \ {JunkText, NanText}, score : TrendScores, weight : {RInt(1)}]
    \cup [date : {DateText("num", "-", 2023, 4, 1, FALSE)}, score : TrendScores,
          weight : TrendWeights]
    \cup [date : {JunkText, NanText}, score : {RInt(1)}, weight : TrendWeights]

TrendIdle ==
    /\ scores_with_dates = <<>>
    /\ trend_result = [direction |-> "none"]
    /\ trend_by = "none"

CalculateTrendFixed ==
    /\ trend_by = "none"
    /\ trend_result' = AgentCalculateTrend(scores_with_dates)
    /\ trend_by' = "agent"
    /\ UNCHANGED scores_with_dates

CalculateTrendHelper ==
    /\ trend_by = "none"
    /\ trend_result' = HelperCalculateTrend(scores_with_dates)
    /\ trend_by' = "helper"
    /\ UNCHANGED scores_with_dates

(***************************************************************************)
(* Evaluator-block segmenter (DataCleaner).                                *)
(*                                                                         *)
(* Texts are token sequences.  A grouping-key component (student, form,    *)
(* phase, year, release date) is a sequence of key tokens: Pipe for the    *)
(* character '|', W(s) for a run of other characters, or a date text.      *)
(* A question name, a rating-question text and a comment are sequences of  *)
(* words (strings); a pattern of the code matches a name when its words    *)
(* occur in it, adjacent and in order.  The empty sequence is ''.          *)
(***************************************************************************)
Pipe == [tok |-> "|"]
W(s) == [tok |-> s]

\* cell values of the cleaned table
Null    == [t |-> "null"]
IntV(i) == [t |-> "int", v |-> i]
StrV(s) == [t |-> "str", v |-> s]

RoleQuestion == <<"Please select your role:">>

\* pattern occurs in name as a contiguous run of words (substring test)
Contains(name, pattern) ==
    \E i \in 1..(Len(name) - Len(pattern) + 1) :
        SubSeq(name, i, i + Len(pattern) - 1) = pattern

\* f"{formname}|{phasename}|{academicyearname}|{releasedate}"
FormKey(row) ==
    row.formname \o <<Pipe>> \o row.phasename \o <<Pipe>>
        \o row.academicyearname \o <<Pipe>> \o row.releasedate

\* form_key.split('|')
RECURSIVE SplitPipe(_, _)
SplitPipe(key, cur) ==
    IF key = <<>> THEN <<cur>>
    ELSE IF Head(key) = Pipe THEN <<cur>> \o SplitPipe(Tail(key), <<>>)
    ELSE SplitPipe(Tail(key), Append(cur, Head(key)))

\* string order of the key tokens of the modelled vocabulary, by first character
KeyTokenOrder ==
    <<DateText("num", "-", 2023, 3, 2, FALSE),
      DateText("num", "/", 3, 2, 2023, FALSE),
      DateText("num", "/", 3, 2, 2023, TRUE),
      DateText("num", "/", 3, 2, 23, FALSE),
      DateText("num", "/", 3, 2, 23, TRUE),
      DateText("num", "/", 4, 1, 2023, TRUE),
      DateText("num", "/", 5, 6, 23, FALSE),
      W("F"), W("G"), W("P"), W("Y"), W("s1"), W("t2"), Pipe>>

TokenRank(tok) == CHOOSE i \in 1..Len(KeyTokenOrder) : KeyTokenOrder[i] = tok

\* str.__lt__ on token sequences
RECURSIVE TextLt(_, _)
TextLt(x, y) ==
    IF y = <<>> THEN FALSE
    ELSE IF x = <<>> THEN TRUE
    ELSE IF Head(x) = Head(y) THEN TextLt(Tail(x), Tail(y))
    ELSE TokenRank(Head(x)) < TokenRank(Head(y))

\* the group keys of a groupby, in sorted order
RECURSIVE SortedKeys(_)
SortedKeys(S) ==
    IF S = {} THEN <<>>
    ELSE LET m == CHOOSE x \in S : \A y \in S : x = y \/ TextLt(x, y)
         IN  <<m>> \o SortedKeys(S \ {m})

RowsOf(table) == {table[i] : i \in 1..Len(table)}

\* DataCleaner._identify_evaluator_blocks
RECURSIVE BlockStartsFrom(_, _)
BlockStartsFrom(table, i) ==
    IF i > Len(table) THEN <<>>
    ELSE IF table[i].questionname = RoleQuestion
         THEN <<i>> \o BlockStartsFrom(table, i + 1)
         ELSE BlockStartsFrom(table, i + 1)

\* a variant that forgets the end marker: the last block is lost
IdentifyEvaluatorBlocksNoEndMarker(table) ==
    LET block_starts == BlockStartsFrom(table, 1)
    IN  [i \in 1..(Len(block_starts) - 1) |->
            SubSeq(table, block_starts[i], block_starts[i + 1] - 1)]

\* a variant whose blocks include the next block's first row
IdentifyEvaluatorBlocksInclusiveEnd(table) ==
    LET block_starts == BlockStartsFrom(table, 1) \o <<Len(table) + 1>>
    IN  [i \in 1..(Len(block_starts) - 1) |->
            SubSeq(table, block_starts[i],
                   IF block_starts[i + 1] <= Len(table) THEN block_starts[i + 1]
                   ELSE Len(table))]

IdentifyEvaluatorBlocks(table) ==
    LET block_starts == BlockStartsFrom(table, 1) \o <<Len(table) + 1>>
    IN  [i \in 1..(Len(block_starts) - 1) |->
            SubSeq(table, block_starts[i], block_starts[i + 1] - 1)]

\* DataCleaner._format_date (text concatenation '20' + year_short on the shape)
FormatDate(part) ==
    IF part = <<>> THEN <<>>
    ELSE IF Len(part) = 1 /\ "form" \in DOMAIN part[1]
    THEN LET t == part[1]
         IN  IF t.form = "num" /\ t.time /\ t.sep = "/"
             THEN <<DateText("num", "-",
                             20 * (IF Digits(t.c) = 1 THEN 10
                                   ELSE IF Digits(t.c) = 2 THEN 100
                                   ELSE IF Digits(t.c) = 3 THEN 1000 ELSE 10000) + t.c,
                             t.a, t.b, FALSE)>>
             ELSE part
    ELSE part

\* DataCleaner._safe_int on a rating cell (a string)
IntLiterals == [x \in {"1", "2", "3", "4"} |->
                  CASE x = "1" -> 1 [] x = "2" -> 2 [] x = "3" -> 3 [] x = "4" -> 4]

SafeInt(cell) ==
    IF cell = "" THEN Null
    ELSE IF cell \in DOMAIN IntLiterals THEN IntV(IntLiterals[cell])
    ELSE Null

\* Series.notna() on a cell ("NaN" stands for a missing cell)
NotNa(cell) == cell # "NaN"

\* lower-cased word with the non-word characters removed
SlugWords ==
    [x \in {"Shows Dependability,", "Truthfulness", "&", "and Integrity", "Other"} |->
        CASE x = "Shows Dependability," -> "shows_dependability"
          [] x = "Truthfulness" -> "truthfulness"
          [] x = "&" -> ""
          [] x = "and Integrity" -> "and_integrity"
          [] x = "Other" -> "other"]

RECURSIVE JoinUnderscore(_)
JoinUnderscore(ws) ==
    IF ws = <<>> THEN ""
    ELSE IF Len(ws) = 1 THEN Head(ws)
    ELSE Head(ws) \o "_" \o JoinUnderscore(Tail(ws))

\* DataCleaner._convert_to_key
ConvertToKey(text) ==
    LET NonEmpty(w) == w # ""
    IN  JoinUnderscore(SelectSeq([i \in 1..Len(text) |-> SlugWords[text[i]]], NonEmpty))

\* DataCleaner._clean_comment: placeholder tags become [REDACTED]
CleanComment(comment) ==
    [i \in 1..Len(comment) |->
        IF comment[i] \in {"<LOCATION>", "<ADDRESSES>"} THEN "[REDACTED]" ELSE comment[i]]

\* dict assignment base_row[key] = value
Put(d, k, v) == [x \in DOMAIN d \cup {k} |-> IF x = k THEN v ELSE d[x]]

\* the row filters of _process_data
IsRoleRow(row) == row.questionname = RoleQuestion

IsFrequencyRow(row) == row.questionname = <<"Frequency">>

IsProfRow(row) ==
    /\ row.questionname = <<"Professionalism:">>
    /\ NotNa(row.rating_answer_sortorder)

IsCommRow(row) ==
    /\ \/ Contains(row.questionname, <<"Communication:">>)
       \/ Contains(row.questionname,
                   <<"Advocates for patients", "by addressing", "social determinants">>)
       \/ Contains(row.questionname, <<"CES competency">>)
    /\ NotNa(row.rating_answer_sortorder)

\* a variant of the EPA filter that drops the rows with a blank rating cell
IsEpaRowWithRating(row) ==
    /\ Contains(row.questionname, <<"EPA">>)
    /\ row.rating_answer_sortorder # ""

IsEpaRow(row) ==
    /\ Contains(row.questionname, <<"EPA">>)
    /\ NotNa(row.rating_answer_sortorder)

\* the 3-way keyword match of the communication loop; "" is the skipped row
CommKey(name) ==
    IF Contains(name, <<"Listening">>) \/ Contains(name, <<"listening">>)
    THEN "comm_listening"
    ELSE IF Contains(name, <<"shared decision">>) \/ Contains(name, <<"decision making">>)
    THEN "comm_decision_making"
    ELSE IF \/ Contains(name, <<"Advocates for patients">>)
            \/ Contains(name, <<"social determinants">>)
            \/ Contains(name, <<"CES competency">>)
    THEN "comm_advocacy"
    ELSE ""

\* re.search(r'EPA\s*(\d+)', name): the key, or "" without a match
NumberWords == {"1", "2", "3", "9", "10"}

EpaKey(name) ==
    LET hits == {i \in 1..(Len(name) - 1) : name[i] = "EPA" /\ name[i + 1] \in NumberWords}
    IN  IF hits = {} THEN ""
        ELSE LET first == CHOOSE i \in hits : \A j \in hits : i <= j
             IN  "epa" \o name[first + 1]

RECURSIVE AddProfRatings(_, _)
AddProfRatings(base_row, rows) ==
    IF rows = <<>> THEN base_row
    ELSE LET row      == Head(rows)
             question == row.ratingscalequestiontext
         IN  AddProfRatings(
                 IF question # <<>>
                 THEN Put(base_row, "prof_" \o ConvertToKey(question),
                          SafeInt(row.rating_answer_sortorder))
                 ELSE base_row,
                 Tail(rows))

RECURSIVE AddCommRatings(_, _)
AddCommRatings(base_row, rows) ==
    IF rows = <<>> THEN base_row
    ELSE LET row == Head(rows)
             key == CommKey(row.questionname)
         IN  AddCommRatings(
                 IF key # "" THEN Put(base_row, key, SafeInt(row.rating_answer_sortorder))
                 ELSE base_row,
                 Tail(rows))

RECURSIVE AddEpaRatings(_, _)
AddEpaRatings(base_row, rows) ==
    IF rows = <<>> THEN base_row
    ELSE LET row == Head(rows)
             key == EpaKey(row.questionname)
         IN  AddEpaRatings(
                 IF key # "" THEN Put(base_row, key, SafeInt(row.rating_answer_sortorder))
                 ELSE base_row,
                 Tail(rows))

\* the body of the evaluator-block loop: the records of one block (none or one)
BlockRecords(student_id, form_parts, evaluator_df) ==
    LET role_row        == SelectSeq(evaluator_df, IsRoleRow)
        frequency_row   == SelectSeq(evaluator_df, IsFrequencyRow)
        IsPositive(r)   == r.text_answer_category = "positive"
        IsImprove(r)    == r.text_answer_category = "improvement"
        strength_row    == SelectSeq(evaluator_df, IsPositive)
        improvement_row == SelectSeq(evaluator_df, IsImprove)
        base_row ==
            [student_id           |-> StrV(student_id),
             form_name            |-> StrV(form_parts[1]),
             phase_name           |-> StrV(form_parts[2]),
             academic_year        |-> StrV(form_parts[3]),
             release_date         |-> StrV(FormatDate(form_parts[4])),
             evaluator_role       |-> StrV(role_row[1].questionchoicetext),
             frequency            |-> StrV(IF frequency_row # <<>>
                                           THEN frequency_row[1].questionchoicetext
                                           ELSE <<>>),
             strengths_comment    |-> StrV(IF strength_row # <<>>
                                           THEN CleanComment(strength_row[1].text_answer)
                                           ELSE <<>>),
             improvements_comment |-> StrV(IF improvement_row # <<>>
                                           THEN CleanComment(improvement_row[1].text_answer)
                                           ELSE <<>>)]
    IN  IF role_row = <<>> THEN <<>>
        ELSE <<AddEpaRatings(
                   AddCommRatings(
                       AddProfRatings(base_row, SelectSeq(evaluator_df, IsProfRow)),
                       SelectSeq(evaluator_df, IsCommRow)),
                   SelectSeq(evaluator_df, IsEpaRow))>>

RECURSIVE BlocksRecords(_, _, _)
BlocksRecords(student_id, form_parts, blocks) ==
    IF blocks = <<>> THEN <<>>
    ELSE BlockRecords(student_id, form_parts, Head(blocks))
             \o BlocksRecords(student_id, form_parts, Tail(blocks))

\* '||' in form_key
HasDoublePipe(key) == Contains(key, <<Pipe, Pipe>>)

\* whether the form-group loop skips the group of this key
SkipsFormKey(key) == HasDoublePipe(key) \/ Len(SplitPipe(key, <<>>)) # 4

\* the rows of one form group of one student, in file order
FormGroup(table, student_id, key) ==
    LET InGroup(r) == r.student = student_id /\ FormKey(r) = key
    IN  SelectSeq(table, InGroup)

\* the body of the form-group loop
FormGroupRecords(table, student_id, key) ==
    IF SkipsFormKey(key) THEN <<>>
    ELSE BlocksRecords(student_id, SplitPipe(key, <<>>),
                       IdentifyEvaluatorBlocks(FormGroup(table, student_id, key)))

RECURSIVE FormGroupsRecords(_, _, _)
FormGroupsRecords(table, student_id, keys) ==
    IF keys = <<>> THEN <<>>
    ELSE FormGroupRecords(table, student_id, Head(keys))
             \o FormGroupsRecords(table, student_id, Tail(keys))

\* the body of the student loop
StudentRecords(table, student_id) ==
    IF student_id = <<>> THEN <<>>
    ELSE FormGroupsRecords(table, student_id,
             SortedKeys({FormKey(r) : r \in {x \in RowsOf(table) : x.student = student_id}}))

RECURSIVE StudentsRecords(_, _)
StudentsRecords(table, ids) ==
    IF ids = <<>> THEN <<>>
    ELSE StudentRecords(table, Head(ids)) \o StudentsRecords(table, Tail(ids))

RequiredColumns ==
    {"student_id", "form_name", "phase_name", "academic_year", "release_date",
     "evaluator_role", "frequency", "strengths_comment", "improvements_comment"}

ProfColumns ==
    {"prof_shows_dependability_truthfulness_and_integrity",
     "prof_acknowledges_and_demonstrates_awareness_of_limitations",
     "prof_takes_initiative_for_own_learning_and_patient_care",
     "prof_remains_open_to_feedback_and_attempts_to_implement_it",
     "prof_treats_all_patients_with_respect_and_compassion_protects_patient_confidentiality"}

CommColumns == {"comm_listening", "comm_decision_making", "comm_advocacy", "comm_other"}

EpaColumns ==
    {"epa1", "epa2", "epa3", "epa4", "epa5", "epa6", "epa7", "epa8", "epa9"}

AllColumns == RequiredColumns \cup ProfColumns \cup CommColumns \cup EpaColumns

\* pd.DataFrame(clean_rows) with the missing columns of all_columns added
DataFrameOf(clean_rows) ==
    IF clean_rows = <<>> THEN [columns |-> {}, rows |-> <<>>]
    ELSE LET cols == UNION {DOMAIN clean_rows[i] : i \in 1..Len(clean_rows)} \cup AllColumns
         IN  [columns |-> cols,
              rows    |-> [i \in 1..Len(clean_rows) |->
                              [c \in cols |-> IF c \in DOMAIN clean_rows[i]
                                              THEN clean_rows[i][c] ELSE Null]]]

\* DataCleaner._process_data
CleanRows(table) ==
    StudentsRecords(table, SortedKeys({r.student : r \in RowsOf(table)}))

ProcessDataFrame(table) == DataFrameOf(CleanRows(table))

(***************************************************************************)
(* Specification of the segmenter: a raw table is drawn from a pool of     *)
(* rows, then either one form group is segmented or the table is cleaned.  *)
(***************************************************************************)
MaxRows == 3

RawRow(student, form, phase, year, date, content) ==
    [student                 |-> student,
     formname                |-> form,
     phasename               |-> phase,
     academicyearname        |-> year,
     releasedate             |-> date,
     questionname            |-> content.questionname,
     questionchoicetext      |-> content.questionchoicetext,
     rating_answer_sortorder |-> content.rating_answer_sortorder,
     ratingscalequestiontext |-> content.ratingscalequestiontext,
     text_answer             |-> content.text_answer,
     text_answer_category    |-> content.text_answer_category]

Content(name, choice, rating, question, text, category) ==
    [questionname            |-> name,
     questionchoicetext      |-> choice,
     rating_answer_sortorder |-> rating,
     ratingscalequestiontext |-> question,
     text_answer             |-> text,
     text_answer_category    |-> category]

RoleContent      == Content(RoleQuestion, <<"Attending">>, "", <<>>, <<>>, "")
FrequencyContent == Content(<<"Frequency">>, <<"Weekly">>, "", <<>>, <<>>, "")
EpaContent       == Content(<<"EPA", "2", "Clinical Reasoning">>, <<>>, "3", <<>>, <<>>, "")
ProfContent      == Content(<<"Professionalism:">>, <<>>, "3",
                            <<"Shows Dependability,", "Truthfulness", "&", "and Integrity">>,
                            <<>>, "")
CommContent      == Content(<<"Communication:", "Listening">>, <<>>, "N/A", <<>>, <<>>, "")
CommentContent   == Content(<<"Comments">>, <<>>, "", <<>>,
                            <<"Rounds at", "<LOCATION>">>, "positive")

Student1 == <<W("s1")>>
FormF    == <<W("F")>>
PhaseP   == <<W("P")>>
YearY    == <<W("Y")>>
Date1    == <<DateText("num", "/", 3, 2, 23, TRUE)>>

\* the other release-date forms: "3/2/23", "3/2/2023 0:00", "3/2/2023", "2023-03-02"
ShortYearDate    == <<DateText("num", "/", 3, 2, 23, FALSE)>>
LongYearTimeDate == <<DateText("num", "/", 3, 2, 2023, TRUE)>>
LongYearDate     == <<DateText("num", "/", 3, 2, 2023, FALSE)>>
IsoDate          == <<DateText("num", "-", 2023, 3, 2, FALSE)>>

\* a rating row whose question name holds more than "Professionalism:"
ProfNamedContent == Content(<<"Professionalism:", "Teamwork">>, <<>>, "3",
                            <<"Shows Dependability,", "Truthfulness", "&", "and Integrity">>,
                            <<>>, "")

\* a second row for EPA 2 whose rating cell was blank in the file
EpaBlankContent == Content(<<"EPA", "2", "Clinical Reasoning">>, <<>>, "", <<>>, <<>>, "")

RowPool ==
    {RawRow(Student1, FormF, PhaseP, YearY, Date1, c) :
        c \in {RoleContent, FrequencyContent, EpaContent, ProfContent,
               CommContent, CommentContent}}
    \cup {RawRow(Student1, <<>>, PhaseP, YearY, Date1, RoleContent),
          RawRow(Student1, FormF, <<>>, YearY, Date1, RoleContent),
          RawRow(Student1, FormF, PhaseP, <<>>, Date1, RoleContent),
          RawRow(Student1, FormF, PhaseP, YearY, <<>>, RoleContent),
          RawRow(Student1, FormF, PhaseP, YearY, <<>>, EpaContent),
          RawRow(Student1, <<W("F"), Pipe, W("G")>>, PhaseP, YearY, Date1, RoleContent),
          RawRow(Student1, <<W("G")>>, PhaseP, YearY, Date1, RoleContent),
          RawRow(<<>>, FormF, PhaseP, YearY, Date1, RoleContent),
          RawRow(Student1, FormF, PhaseP, YearY, Date1, ProfNamedContent),
          RawRow(Student1, FormF, PhaseP, YearY, Date1, EpaBlankContent)}
    \cup {RawRow(Student1, FormF, PhaseP, YearY, d, RoleContent) :
            d \in {ShortYearDate, LongYearTimeDate, LongYearDate, IsoDate}}

NoFrame == [columns |-> {"(not returned)"}, rows |-> <<>>]

SegIdle ==
    /\ df = <<>>
    /\ form_df = <<>>
    /\ evaluator_blocks = <<>>
    /\ clean_data = NoFrame
    /\ seg_pc = "start"

\* the call of line 88: one form group that passed the key checks is segmented
IdentifyEvaluatorBlocksCall ==
    /\ seg_pc = "start"
    /\ \E r \in RowsOf(df) :
          /\ r.student # <<>>
          /\ ~SkipsFormKey(FormKey(r))
          /\ form_df' = FormGroup(df, r.student, FormKey(r))
    /\ evaluator_blocks' = IdentifyEvaluatorBlocks(form_df')
    /\ seg_pc' = "blocks"
    /\ UNCHANGED <<df, clean_data>>

\* clean_data's call of _process_data
ProcessData ==
    /\ seg_pc = "start"
    /\ clean_data' = ProcessDataFrame(df)
    /\ seg_pc' = "processed"
    /\ UNCHANGED <<df, form_df, evaluator_blocks>>

(***************************************************************************)
(* Ingestion and numeric analysis of one subject's records.                *)
(*                                                                         *)
(* A row of the table handed to the pipeline holds a release date and the  *)
(* cells epa1, epa2 and comm_other (the other rating columns are blank in  *)
(* every row).  flask_app reads the cleaned CSV with pandas.read_csv and   *)
(* passes DataFrame.values.tolist(): a blank cell arrives as float nan.    *)
(***************************************************************************)
PyNone   == [kind |-> "None"]
PyNan    == [kind |-> "nan"]
PyNum(k) == [kind |-> "num", v |-> RInt(k)]

\* the float nan in arithmetic: it propagates, and every "<" with it is false
FloatNan == [n |-> 0, d |-> 0]

\* the float a cell that passed isinstance(value, (int, float)) computes with
FloatOf(cell) == IF cell.kind = "num" THEN cell.v ELSE FloatNan

\* SharedMemory's column_type_map for the modelled columns
ColumnType(col) ==
    CASE col \in {"epa1", "epa2"} -> "int"
      [] col = "release_date"     -> "date"
      [] OTHER                    -> "text"

\* DataIngestionAgent._safe_cast on a rating cell
SafeCast(value, type_name) ==
    IF value = PyNone THEN PyNone
    ELSE IF type_name = "int" THEN (IF value = PyNan THEN PyNone ELSE value)
    ELSE value

SafeCastDateFormats == <<"%m/%d/%Y", "%Y-%m-%d", "%d/%m/%y">>

\* DataIngestionAgent._safe_cast on the release date: a str that parses becomes
\* its isoformat() text "YYYY-MM-DDT00:00:00", anything else stays as it is
SafeCastDate(t) ==
    IF ~Truthy(t) THEN NoneText
    ELSE IF t.form = "nan" THEN t
    ELSE LET d == TryFormats(t, SafeCastDateFormats)
         IN  IF d = NoDate THEN t
             ELSE DateText("isoT", "-", d.year, d.month, d.day, TRUE)

\* DataIngestionAgent._process_data_with_map, one row; NoneText in
\* release_date_str stands for the key not being set
ParsedRow(row, now) ==
    [form_name        |-> row.form_name,
     release_date     |-> SafeCastDate(row.release_date),
     epa1             |-> SafeCast(row.epa1, ColumnType("epa1")),
     epa2             |-> SafeCast(row.epa2, ColumnType("epa2")),
     comm_other       |-> SafeCast(row.comm_other, ColumnType("comm_other")),
     recency_weight   |-> AgentRecencyWeight(row.release_date, now),
     release_date_str |-> IF Truthy(row.release_date) THEN row.release_date ELSE NoneText]

ProcessDataWithMap(table, now) == [i \in 1..Len(table) |-> ParsedRow(table[i], now)]

\* row.get("release_date_str") or row.get("release_date")
DateStrOf(row) ==
    IF Truthy(row.release_date_str) THEN row.release_date_str ELSE row.release_date

NumericFields == <<"epa1", "epa2", "comm_other">>

\* value is not None and isinstance(value, (int, float))
IsNumeric(cell) == cell # PyNone

\* the rows that contribute to a field, in order
RECURSIVE FieldRows(_, _)
FieldRows(data, field) ==
    IF data = <<>> THEN <<>>
    ELSE IF IsNumeric(Head(data)[field])
         THEN <<Head(data)>> \o FieldRows(Tail(data), field)
         ELSE FieldRows(Tail(data), field)

\* field_scores_with_dates of a field
RECURSIVE FieldScoresWithDates(_, _)
FieldScoresWithDates(rows, field) ==
    IF rows = <<>> THEN <<>>
    ELSE LET row == Head(rows)
             rest == FieldScoresWithDates(Tail(rows), field)
         IN  IF Truthy(DateStrOf(row))
             THEN <<[date   |-> DateStrOf(row),
                     score  |-> FloatOf(row[field]),
                     weight |-> row.recency_weight]>> \o rest
             ELSE rest

\* the builtins min and max
RECURSIVE PyMin(_)
PyMin(s) ==
    IF Len(s) = 1 THEN s[1]
    ELSE LET m == PyMin(SubSeq(s, 1, Len(s) - 1))
         IN  IF RLt(s[Len(s)], m) THEN s[Len(s)] ELSE m

RECURSIVE PyMax(_)
PyMax(s) ==
    IF Len(s) = 1 THEN s[1]
    ELSE LET m == PyMax(SubSeq(s, 1, Len(s) - 1))
         IN  IF RLt(m, s[Len(s)]) THEN s[Len(s)] ELSE m

\* field_stats of a field that has scores
FieldStats(data, field) ==
    LET rows          == FieldRows(data, field)
        field_scores  == [i \in 1..Len(rows) |-> FloatOf(rows[i][field])]
        field_weights == [i \in 1..Len(rows) |-> rows[i].recency_weight]
        weighted_avg  == Round2(AgentWeightedMean(field_scores, WList(field_weights)))
    IN  [avg          |-> weighted_avg,
         weighted_avg |-> weighted_avg,
         raw_avg      |-> Round2(RDiv(RSum(field_scores), RInt(Len(field_scores)))),
         min          |-> PyMin(field_scores),
         max          |-> PyMax(field_scores),
         count        |-> Len(field_scores),
         recent_trend |-> AgentCalculateTrend(FieldScoresWithDates(rows, field))]

\* all_numeric_fields
AllNumericFields(data) ==
    {f \in {NumericFields[k] : k \in 1..Len(NumericFields)} :
        \E i \in 1..Len(data) : IsNumeric(data[i][f])}

\* the rows _analyze_temporal_progression keeps, each with its datetime
RECURSIVE TemporalData(_)
TemporalData(data) ==
    IF data = <<>> THEN <<>>
    ELSE LET row  == Head(data)
             rest == TemporalData(Tail(data))
         IN  IF ~Truthy(DateStrOf(row)) THEN rest
             ELSE IF AgentParseDate(DateStrOf(row)) = NoDate THEN rest
             ELSE <<[date     |-> AgentParseDate(DateStrOf(row)),
                     date_str |-> DateStrOf(row),
                     rotation |-> row.form_name,
                     epa1     |-> row.epa1,
                     epa2     |-> row.epa2]>> \o rest

\* _parse_date raises on the date of some row
TemporalRaises(data) ==
    \E i \in 1..Len(data) :
        Truthy(DateStrOf(data[i])) /\ AgentParseDate(DateStrOf(data[i])) = TypeErr

ReasoningEpas == <<"epa1", "epa2">>

\* the reasoning-EPA scores of one evaluation
RECURSIVE PeriodScores(_, _)
PeriodScores(eval_data, epas) ==
    IF epas = <<>> THEN <<>>
    ELSE IF IsNumeric(eval_data[Head(epas)])
         THEN <<FloatOf(eval_data[Head(epas)])>> \o PeriodScores(eval_data, Tail(epas))
         ELSE PeriodScores(eval_data, Tail(epas))

\* one mean per evaluation of the period that has a reasoning-EPA score
RECURSIVE PeriodAverages(_)
PeriodAverages(period) ==
    IF period = <<>> THEN <<>>
    ELSE LET period_scores == PeriodScores(Head(period), ReasoningEpas)
             rest          == PeriodAverages(Tail(period))
         IN  IF period_scores # <<>>
             THEN <<RDiv(RSum(period_scores), RInt(Len(period_scores)))>> \o rest
             ELSE rest

TemporalThreshold == Rat(3, 10)

\* the direction rule of _analyze_temporal_progression
TemporalDirection(epa_change) ==
    IF RLt(TemporalThreshold, epa_change) THEN "improving"
    ELSE IF RLt(epa_change, RSub(RInt(0), TemporalThreshold)) THEN "declining"
    ELSE "stable"

NotPerformed == [temporal_analysis_performed |-> FALSE]

InsufficientData ==
    [temporal_analysis_performed |-> TRUE,
     insufficient_data           |-> TRUE,
     message                     |-> "Need at least 2 time points for temporal analysis"]

\* the result of an analysis that raised instead of returning
AnalysisRaised == [raised |-> "TypeError"]

\* temporal_data[:len(temporal_data)//2] and temporal_data[len(temporal_data)//2:]
EarlyPeriod(temporal_data) == SubSeq(temporal_data, 1, Len(temporal_data) \div 2)

\* the second half starting one record late
RecentPeriodSkippingOne(temporal_data) ==
    SubSeq(temporal_data, (Len(temporal_data) \div 2) + 2, Len(temporal_data))

RecentPeriod(temporal_data) ==
    SubSeq(temporal_data, (Len(temporal_data) \div 2) + 1, Len(temporal_data))

\* NumericAnalysisAgent._analyze_temporal_progression
AnalyzeTemporalProgression(data, is_temporal_query) ==
    IF ~is_temporal_query THEN NotPerformed
    ELSE IF TemporalRaises(data) THEN AnalysisRaised
    ELSE LET temporal_data == SortByDate(TemporalData(data))
             n             == Len(temporal_data)
         IN  IF n < 2 THEN InsufficientData
             ELSE LET early  == PeriodAverages(EarlyPeriod(temporal_data))
                      recent == PeriodAverages(RecentPeriod(temporal_data))
                      both   == early # <<>> /\ recent # <<>>
                      early_avg  == RDiv(RSum(early), RInt(Len(early)))
                      recent_avg == RDiv(RSum(recent), RInt(Len(recent)))
                      epa_change == IF both THEN RSub(recent_avg, early_avg) ELSE RInt(0)
                      epa_trend  == IF both THEN TemporalDirection(epa_change) ELSE "stable"
                  IN  [temporal_analysis_performed |-> TRUE,
                       total_evaluations |-> n,
                       time_span |->
                           [earliest    |-> temporal_data[1].date_str,
                            most_recent |-> temporal_data[n].date_str,
                            rotations   |-> {temporal_data[i].rotation : i \in 1..n}],
                       epa_progression |->
                           [direction  |-> epa_trend,
                            change     |-> Round2(epa_change),
                            early_avg  |-> IF early # <<>> THEN Round2(early_avg) ELSE PyNone,
                            recent_avg |-> IF recent # <<>> THEN Round2(recent_avg) ELSE PyNone]]

\* field.startswith("epa") / field.startswith("comm_")
EpaFields  == {"epa1", "epa2"}
CommFields == {"comm_other"}

\* the reported fields of a category, each with its field_stats
StatsOf(data, category) ==
    [f \in AllNumericFields(data) \cap category |-> FieldStats(data, f)]

\* NumericAnalysisAgent._enhanced_fallback_analysis
EnhancedFallbackAnalysis(data, is_temporal_query) ==
    LET temporal == AnalyzeTemporalProgression(data, is_temporal_query)
    IN  IF temporal = AnalysisRaised THEN AnalysisRaised
        ELSE IF \E f \in AllNumericFields(data) :
                    FieldStats(data, f).recent_trend = TrendRaised
             THEN AnalysisRaised
        ELSE [by_epa                  |-> StatsOf(data, EpaFields),
              by_communication        |-> StatsOf(data, CommFields),
              by_professionalism      |-> <<>>,
              query_specific_analysis |-> <<>>,
              temporal_analysis       |-> temporal]

(***************************************************************************)
(* Specification of ingestion followed by the numeric analysis.            *)
(***************************************************************************)
MaxRecords == 3

Jan1  == DateText("num", "-", 2023, 1, 1, FALSE)
Apr1  == DateText("num", "-", 2023, 4, 1, FALSE)
Jul1  == DateText("num", "-", 2023, 7, 1, FALSE)

\* a row of the table: release date and the cells epa1, epa2, comm_other
NumRow(d, e1, e2, co) ==
    [form_name |-> "F", release_date |-> d, epa1 |-> e1, epa2 |-> e2, comm_other |-> co]

NumRowPool ==
    {NumRow(Jan1, PyNan, PyNum(2), PyNan),
     NumRow(Apr1, PyNum(3), PyNum(3), PyNan),
     NumRow(Jul1, PyNan, PyNum(4), PyNum(3)),
     NumRow(Jan1, PyNan, PyNum(4), PyNum(3)),
     NumRow(Jul1, PyNan, PyNum(2), PyNan),
     NumRow(Apr1, PyNan, PyNan, PyNan),
     NumRow(JunkText, PyNan, PyNum(2), PyNan),
     NumRow(JunkText, PyNum(3), PyNum(3), PyNan),
     NumRow(NanText, PyNan, PyNum(4), PyNum(3)),
     NumRow(NanText, PyNan, PyNan, PyNan)}

\* the day of the run: two weeks after the latest record, or eleven months
\* after it (every dated record is then older than 9 months)
Todays == {DateTime(2023, 7, 15), DateTime(2024, 6, 15)}

NumIdle ==
    /\ raw_table = <<>>
    /\ today = NoDate
    /\ temporal_dimension = FALSE
    /\ parsed_data = <<>>
    /\ temporal_analysis = PyNone
    /\ numeric_analysis = PyNone
    /\ num_pc = "idle"

\* DataIngestionAgent.run
IngestionRun ==
    /\ num_pc = "start"
    /\ parsed_data' = ProcessDataWithMap(raw_table, today)
    /\ num_pc' = "ingested"
    /\ UNCHANGED <<raw_table, today, temporal_dimension, temporal_analysis, numeric_analysis>>

\* NumericAnalysisAgent.run when the LLM analysis fails, for either value of
\* the structured query's temporal flag
NumericAnalysisFallback ==
    /\ num_pc = "ingested"
    /\ \E is_temporal_query \in BOOLEAN :
          /\ temporal_dimension' = is_temporal_query
          /\ temporal_analysis' = AnalyzeTemporalProgression(parsed_data, is_temporal_query)
          /\ numeric_analysis' = EnhancedFallbackAnalysis(parsed_data, is_temporal_query)
    /\ num_pc' = "analysed"
    /\ UNCHANGED <<raw_table, today, parsed_data>>

(***************************************************************************)
(* Pattern confidence (TextAnalysisAgent).                                 *)
(*                                                                         *)
(* A label (evaluator role, rotation) is a str given as its sequence of    *)
(* words, or a value that is not a str (float nan, a blank CSV cell); a    *)
(* substring test is a test for a run of words.                            *)
(***************************************************************************)
Label(ws) == [kind |-> "str", words |-> ws]
NanLabel  == [kind |-> "nan", words |-> <<>>]
Unknown   == Label(<<"Unknown">>)

\* str.lower() on a word
LowerWord(w) ==
    CASE w = "Attending"   -> "attending"
      [] w = "Resident"    -> "resident"
      [] w = "Clinical"    -> "clinical"
      [] w = "Performance" -> "performance"
      [] w = "Assessment"  -> "assessment"
      [] w = "Surgery"     -> "surgery"
      [] w = "Pediatrics"  -> "pediatrics"
      [] w = "Medicine"    -> "medicine"
      [] w = "Great"       -> "great"
      [] w = "Reasoning"   -> "reasoning"
      [] w = "Kind"        -> "kind"
      [] w = "Unknown"     -> "unknown"
      [] OTHER             -> w

Lower(ws) == [i \in 1..Len(ws) |-> LowerWord(ws[i])]

\* the words start with the run
StartsWith(ws, run) == Len(ws) >= Len(run) /\ SubSeq(ws, 1, Len(run)) = run

\* str.replace(run, "") followed by strip()
RECURSIVE RemoveRun(_, _)
RemoveRun(ws, run) ==
    IF ws = <<>> THEN <<>>
    ELSE IF StartsWith(ws, run) THEN RemoveRun(SubSeq(ws, Len(run) + 1, Len(ws)), run)
    ELSE <<Head(ws)>> \o RemoveRun(Tail(ws), run)

FormPrefix == <<"clinical", "performance", "assessment">>

\* the evidence whose label is not a str: .lower() raises AttributeError
LabelRaises(evidence) ==
    \E i \in 1..Len(evidence) :
        evidence[i].rotation.kind # "str" \/ evidence[i].evaluator_role.kind # "str"

\* unique_rotations
UniqueRotations(evidence) ==
    {RemoveRun(Lower(evidence[i].rotation.words), FormPrefix) :
        i \in {j \in 1..Len(evidence) : evidence[j].rotation # Unknown}} \ {<<>>}

UnknownDate == DateText("unknown", "", 0, 0, 0, FALSE)

\* unique_dates
UniqueDates(evidence) ==
    {evidence[i].date : i \in {j \in 1..Len(evidence) :
        Truthy(evidence[j].date) /\ evidence[j].date # UnknownDate}}

ConfidenceDateFormats == <<"%Y-%m-%d", "%m/%d/%Y", "%m/%d/%y">>

\* date.toordinal()
DaysBeforeMonth(y, m) ==
    LET RECURSIVE Before(_)
        Before(k) == IF k = 1 THEN 0 ELSE Before(k - 1) + DaysIn(y, k - 1)
    IN  Before(m)

ToOrdinal(d) ==
    365 * (d.year - 1) + ((d.year - 1) \div 4) - ((d.year - 1) \div 100)
        + ((d.year - 1) \div 400) + DaysBeforeMonth(d.year, d.month) + d.day

SetMax(S) == CHOOSE x \in S : \A y \in S : y <= x
SetMin(S) == CHOOSE x \in S : \A y \in S : x <= y

\* the factor of the temporal consistency check; a TypeError of strptime
\* reaches the bare "except" and earns the small boost
TemporalMultiplier(evidence) ==
    LET unique_dates == UniqueDates(evidence)
        parseable    == {t \in unique_dates : TryFormats(t, ConfidenceDateFormats) # NoDate}
        days         == {ToOrdinal(TryFormats(t, ConfidenceDateFormats)) : t \in parseable}
    IN  IF Cardinality(unique_dates) < 2 THEN RInt(1)
        ELSE IF \E t \in unique_dates : TryFormats(t, ConfidenceDateFormats) = TypeErr
             THEN Rat(11, 10)
        ELSE IF Cardinality(parseable) < 2 THEN RInt(1)
        ELSE IF SetMax(days) - SetMin(days) > 30 THEN Rat(6, 5)
        ELSE IF SetMax(days) - SetMin(days) > 7 THEN Rat(11, 10)
        ELSE RInt(1)

\* unique_roles
UniqueRoles(evidence) ==
    {Lower(evidence[i].evaluator_role.words) :
        i \in {j \in 1..Len(evidence) : evidence[j].evaluator_role # Unknown}}

\* any("resident" in role ...), any("attending" in role ...)
HasResident(evidence)  == \E role \in UniqueRoles(evidence) : Contains(role, <<"resident">>)
HasAttending(evidence) == \E role \in UniqueRoles(evidence) : Contains(role, <<"attending">>)

\* a base score that gives one evaluator 0.2
BaseScoreGenerous(evaluator_count) ==
    IF evaluator_count >= 4 THEN RInt(1)
    ELSE IF evaluator_count = 3 THEN Rat(7, 10)
    ELSE IF evaluator_count = 2 THEN Rat(2, 5)
    ELSE Rat(1, 5)

BaseScore(evaluator_count) ==
    IF evaluator_count >= 4 THEN RInt(1)
    ELSE IF evaluator_count = 3 THEN Rat(7, 10)
    ELSE IF evaluator_count = 2 THEN Rat(2, 5)
    ELSE Rat(1, 10)

RotationMultiplier(rotation_count) ==
    IF rotation_count >= 3 THEN Rat(13, 10)
    ELSE IF rotation_count = 2 THEN Rat(23, 20)
    ELSE RInt(1)

RoleMultiplier(evidence) ==
    IF HasResident(evidence) /\ HasAttending(evidence) THEN Rat(11, 10) ELSE RInt(1)

Multiplier(evidence) ==
    RMul(RMul(RotationMultiplier(Cardinality(UniqueRotations(evidence))),
              TemporalMultiplier(evidence)),
         RoleMultiplier(evidence))

ConfidenceLevel(final_score) ==
    IF RLe(Rat(4, 5), final_score) THEN "high"
    ELSE IF RLe(Rat(3, 5), final_score) THEN "medium-high"
    ELSE IF RLe(Rat(7, 20), final_score) THEN "medium"
    ELSE IF RLe(Rat(3, 20), final_score) THEN "low-medium"
    ELSE "low"

\* round(x, 3), half to even, on the exact value
Round3(x) ==
    LET num == x.n * 1000
        q   == num \div x.d
        r   == num - q * x.d
        up  == 2 * r > x.d \/ (2 * r = x.d /\ q % 2 = 1)
    IN  Rat(IF up THEN q + 1 ELSE q, 1000)

\* the pieces the description is put together from
Description(evidence, multiplier) ==
    [evaluators |-> Len(evidence),
     rotations  |-> Cardinality(UniqueRotations(evidence)),
     boosts     |-> IF RLt(RInt(1), multiplier)
                    THEN (IF Cardinality(UniqueRotations(evidence)) >= 2
                          THEN <<"cross-rotation consistency">> ELSE <<>>)
                         \o (IF Cardinality(UniqueDates(evidence)) >= 2
                             THEN <<"temporal consistency">> ELSE <<>>)
                         \o (IF HasResident(evidence) /\ HasAttending(evidence)
                             THEN <<"role diversity">> ELSE <<>>)
                    ELSE <<>>]

NoEvidence ==
    [confidence |-> "low", score |-> RInt(0), description |-> "No supporting evidence"]

\* the result of a call that raised instead of returning
ConfidenceRaised == [confidence |-> "raised", score |-> ErrorRaised, description |-> "AttributeError"]

\* _calculate_pattern_confidence without the min(1.0, ...) cap
CalculatePatternConfidenceUncapped(evidence) ==
    IF evidence = <<>> THEN NoEvidence
    ELSE IF LabelRaises(evidence) THEN ConfidenceRaised
    ELSE LET multiplier  == Multiplier(evidence)
             final_score == RMul(BaseScore(Len(evidence)), multiplier)
         IN  [confidence  |-> ConfidenceLevel(final_score),
              score       |-> Round3(final_score),
              description |-> Description(evidence, multiplier)]

\* _calculate_pattern_confidence without the early return on no evidence
CalculatePatternConfidenceNoEarlyReturn(evidence) ==
    IF LabelRaises(evidence) THEN ConfidenceRaised
    ELSE LET multiplier  == Multiplier(evidence)
             final_score == RMin(RInt(1), RMul(BaseScore(Len(evidence)), multiplier))
         IN  [confidence  |-> ConfidenceLevel(final_score),
              score       |-> Round3(final_score),
              description |-> Description(evidence, multiplier)]

\* TextAnalysisAgent._calculate_pattern_confidence
CalculatePatternConfidence(evidence) ==
    IF evidence = <<>> THEN NoEvidence
    ELSE IF LabelRaises(evidence) THEN ConfidenceRaised
    ELSE LET multiplier  == Multiplier(evidence)
             final_score == RMin(RInt(1), RMul(BaseScore(Len(evidence)), multiplier))
         IN  [confidence  |-> ConfidenceLevel(final_score),
              score       |-> Round3(final_score),
              description |-> Description(evidence, multiplier)]

MinConfidenceScore == Rat(3, 20)

\* _filter_by_confidence_threshold keeping every pattern
KeepEveryPattern(patterns) == patterns

\* TextAnalysisAgent._filter_by_confidence_threshold
RECURSIVE FilterByConfidenceThreshold(_)
FilterByConfidenceThreshold(patterns) ==
    IF patterns = <<>> THEN <<>>
    ELSE IF RLe(MinConfidenceScore, Head(patterns).confidence_info.score)
         THEN <<Head(patterns)>> \o FilterByConfidenceThreshold(Tail(patterns))
         ELSE FilterByConfidenceThreshold(Tail(patterns))

\* a pattern with its confidence attached
PatternWith(pattern_text, evidence, info) ==
    [pattern_text           |-> pattern_text,
     supporting_evidence    |-> evidence,
     confidence             |-> info.confidence,
     confidence_info        |-> info,
     confidence_description |-> info.description]

WithConfidence(pattern_text, evidence) ==
    PatternWith(pattern_text, evidence, CalculatePatternConfidence(evidence))

\* a pattern of the LLM's answer: a bare str has no evidence
EnhancedPattern(pattern) ==
    WithConfidence(pattern.pattern_text,
                   IF pattern.is_str THEN <<>> ELSE pattern.supporting_evidence)

EnhancedPatterns(patterns) == [i \in 1..Len(patterns) |-> EnhancedPattern(patterns[i])]

\* some pattern's confidence calculation raises
PatternsRaise(patterns) ==
    \E i \in 1..Len(patterns) : patterns[i].confidence_info = ConfidenceRaised

NoCompetencyAnalysis == [strengths |-> <<>>, improvements |-> <<>>, absent |-> TRUE]

\* the outcome of a step that raised instead of returning
StepRaised == [raised |-> "AttributeError"]

\* TextAnalysisAgent._enhance_with_pattern_confidence, on the competency
\* analysis of the LLM's answer
FilteredAnalysis(enhanced) ==
    IF \E k \in DOMAIN enhanced : PatternsRaise(enhanced[k])
    THEN StepRaised
    ELSE [strengths    |-> FilterByConfidenceThreshold(enhanced["strengths"]),
          improvements |-> FilterByConfidenceThreshold(enhanced["improvements"]),
          absent       |-> FALSE]

EnhanceWithPatternConfidence(comp_analysis) ==
    IF comp_analysis.absent THEN comp_analysis
    ELSE FilteredAnalysis([k \in {"strengths", "improvements"} |->
                              EnhancedPatterns(comp_analysis[k])])

\* list[:n]
Take(s, n) == SubSeq(s, 1, IF Len(s) < n THEN Len(s) ELSE n)

\* list[:n] when n is requested (not None, not 0)
Limit(s, n) == IF n > 0 THEN Take(s, n) ELSE s

\* TextAnalysisAgent._apply_number_limits
ApplyNumberLimits(comp_analysis, specific_numbers) ==
    IF comp_analysis.absent THEN comp_analysis
    ELSE [strengths    |-> Limit(Limit(comp_analysis.strengths,
                                       specific_numbers.strengths_requested),
                                 specific_numbers.top_requested),
          improvements |-> Limit(Limit(comp_analysis.improvements,
                                       specific_numbers.improvements_requested),
                                 specific_numbers.top_requested),
          absent       |-> FALSE]

\* the keywords of a competency focus
RelevantKeywords(competency_focus) ==
    CASE competency_focus = "clinical_reasoning" ->
            {<<"reasoning">>, <<"diagnostic">>, <<"differential">>, <<"decision">>,
             <<"analysis">>, <<"thinking">>, <<"succinct">>, <<"decisive">>,
             <<"assessment">>, <<"plan">>}
      [] competency_focus = "communication" ->
            {<<"communication">>, <<"listening">>, <<"patient", "interaction">>,
             <<"bedside", "manner">>, <<"empathy">>, <<"compassion">>}
      [] OTHER -> {}

\* TextAnalysisAgent._is_relevant_text; "" is no competency focus
IsRelevantText(text, competency_focus) ==
    IF text.kind # "str" THEN FALSE
    ELSE IF competency_focus = "" \/ text.words = <<>> THEN TRUE
    ELSE \E keyword \in RelevantKeywords(competency_focus) :
            Contains(Lower(text.words), keyword)

\* Python truthiness of a comment cell (None, '' are falsy; nan is truthy)
CommentTruthy(text) == text.kind = "nan" \/ (text.kind = "str" /\ text.words # <<>>)

\* " ".join(text.split()[:5]).lower()
PatternKey(text) == Lower(Take(text.words, 5))

\* the evidence item a row contributes
EvidenceOf(row, text) ==
    [text           |-> text,
     evaluator_role |-> row.evaluator_role,
     rotation       |-> row.form_name,
     date           |-> IF Truthy(row.release_date_str)
                        THEN row.release_date_str ELSE UnknownDate]

\* the rows whose comment is kept, in order
RECURSIVE CommentRows(_, _, _)
CommentRows(rows, column, competency_focus) ==
    IF rows = <<>> THEN <<>>
    ELSE LET text == Head(rows)[column]
             rest == CommentRows(Tail(rows), column, competency_focus)
         IN  IF CommentTruthy(text) /\ IsRelevantText(text, competency_focus)
             THEN <<Head(rows)>> \o rest ELSE rest

\* the pattern keys in the order of their first row
RECURSIVE PatternKeys(_, _)
PatternKeys(rows, column) ==
    IF rows = <<>> THEN <<>>
    ELSE LET earlier == PatternKeys(SubSeq(rows, 1, Len(rows) - 1), column)
             key     == PatternKey(rows[Len(rows)][column])
         IN  IF \E i \in 1..Len(earlier) : earlier[i] = key
             THEN earlier ELSE Append(earlier, key)

\* the rows of one pattern key, in order
RECURSIVE RowsOfKey(_, _, _)
RowsOfKey(rows, column, key) ==
    IF rows = <<>> THEN <<>>
    ELSE IF PatternKey(Head(rows)[column]) = key
         THEN <<Head(rows)>> \o RowsOfKey(Tail(rows), column, key)
         ELSE RowsOfKey(Tail(rows), column, key)

\* the patterns of a comment column with their confidence, before filtering
GroupedPatterns(data, column, competency_focus) ==
    LET rows == CommentRows(data, column, competency_focus)
        keys == PatternKeys(rows, column)
    IN  [k \in 1..Len(keys) |->
            LET members == RowsOfKey(rows, column, keys[k])
            IN  WithConfidence(members[1][column],
                               [i \in 1..Len(members) |->
                                   EvidenceOf(members[i], members[i][column])])]

\* list.sort(key=score, reverse=True): stable, descending
RECURSIVE InsertByScore(_, _)
InsertByScore(x, sorted) ==
    IF sorted = <<>> THEN <<x>>
    ELSE IF RLt(Head(sorted).confidence_info.score, x.confidence_info.score)
         THEN <<x>> \o sorted
         ELSE <<Head(sorted)>> \o InsertByScore(x, Tail(sorted))

RECURSIVE SortByScore(_)
SortByScore(s) ==
    IF s = <<>> THEN <<>>
    ELSE InsertByScore(s[Len(s)], SortByScore(SubSeq(s, 1, Len(s) - 1)))

\* TextAnalysisAgent._enhanced_fallback_analysis, its competency analysis
\* the five best patterns that pass the threshold
TopPatterns(patterns) == Take(SortByScore(FilterByConfidenceThreshold(patterns)), 5)

RankedAnalysis(grouped) ==
    IF \E c \in DOMAIN grouped : PatternsRaise(grouped[c])
    THEN StepRaised
    ELSE [strengths    |-> TopPatterns(grouped["strengths_comment"]),
          improvements |-> TopPatterns(grouped["improvements_comment"]),
          absent       |-> FALSE]

TextFallbackAnalysis(data, competency_focus) ==
    RankedAnalysis([c \in {"strengths_comment", "improvements_comment"} |->
                       GroupedPatterns(data, c, competency_focus)])

\* row.get("form_name", "").lower() raises on a form name that is not a str
FiltersRaise(data, rotation_filters) ==
    rotation_filters # <<>> /\ \E i \in 1..Len(data) : data[i].form_name.kind # "str"

\* TextAnalysisAgent._apply_filters
RECURSIVE ApplyFilters(_, _)
ApplyFilters(data, rotation_filters) ==
    IF rotation_filters = <<>> \/ data = <<>> THEN data
    ELSE LET rest == ApplyFilters(Tail(data), rotation_filters)
         IN  IF \E k \in 1..Len(rotation_filters) :
                    Contains(Lower(Head(data).form_name.words), Lower(rotation_filters[k]))
             THEN <<Head(data)>> \o rest ELSE rest

\* the answer of an LLM call that failed or could not be parsed as JSON
LlmFailure == [strengths |-> <<>>, improvements |-> <<>>, absent |-> TRUE, failed |-> TRUE]

NotStored == [stored |-> FALSE]

\* TextAnalysisAgent.run: what it stores as text_analysis, NotStored when it raises
\* the try block's result when it did not raise, else the fallback's
StoredAnalysis(enhanced, fallback, specific_numbers) ==
    IF enhanced # StepRaised THEN ApplyNumberLimits(enhanced, specific_numbers)
    ELSE IF fallback = StepRaised THEN NotStored
    ELSE fallback

TextAnalysisOf(answer, data, query) ==
    IF FiltersRaise(data, query.rotation_filters) THEN NotStored
    ELSE StoredAnalysis(
             IF answer = LlmFailure THEN StepRaised ELSE EnhanceWithPatternConfidence(answer),
             TextFallbackAnalysis(ApplyFilters(data, query.rotation_filters),
                                  query.competency_focus),
             query.specific_numbers)

(***************************************************************************)
(* Specifications of the pattern confidence and of the text analysis run.  *)
(***************************************************************************)
MaxEvidence == 4
MaxTextRows == 3

Attending == Label(<<"Attending">>)
Resident  == Label(<<"Resident">>)

Evidence(role, rotation, date) ==
    [text |-> Label(<<"Great", "reasoning">>), evaluator_role |-> role,
     rotation |-> rotation, date |-> date]

EvidencePool ==
    {Evidence(Attending, Label(<<"Medicine">>), DateText("num", "-", 2023, 1, 1, FALSE)),
     Evidence(Resident, Label(<<"Surgery">>), DateText("num", "-", 2023, 1, 10, FALSE)),
     Evidence(Attending, Label(<<"Clinical", "Performance", "Assessment", "Pediatrics">>),
              DateText("num", "-", 2023, 3, 1, FALSE)),
     Evidence(Label(<<"Resident", "/", "Attending">>), Label(<<"medicine">>),
              DateText("num", "/", 1, 1, 23, FALSE)),
     Evidence(Unknown, Unknown, UnknownDate),
     Evidence(Resident, Label(<<"Clinical", "Performance", "Assessment">>), JunkText),
     Evidence(NanLabel, Label(<<"Surgery">>), NanText),
     Evidence(Attending, Label(<<"Surgery">>), NanText),
     Evidence(Resident, Label(<<"unknown">>), DateText("name", ",", 1, 1, 2023, FALSE))}

TextRow(strengths, improvements, role, form, date) ==
    [strengths_comment |-> strengths, improvements_comment |-> improvements,
     evaluator_role |-> role, form_name |-> form, release_date_str |-> date]

TextRowPool ==
    {TextRow(Label(<<"Great", "reasoning">>), NanLabel, Attending, Label(<<"Medicine">>),
             DateText("num", "-", 2023, 1, 1, FALSE)),
     TextRow(Label(<<"great", "reasoning">>), Label(<<"Kind">>), Resident, Label(<<"Surgery">>),
             DateText("num", "-", 2023, 3, 1, FALSE)),
     TextRow(Label(<<"Kind">>), Label(<<"Kind">>), Attending, Label(<<"Pediatrics">>),
             DateText("num", "-", 2023, 1, 10, FALSE)),
     TextRow(Label(<<"Great", "reasoning">>), NanLabel, NanLabel, Label(<<"Surgery">>), NoneText),
     TextRow(NanLabel, NanLabel, Resident, Label(<<"Medicine">>),
             DateText("num", "-", 2023, 1, 1, FALSE)),
     TextRow(Label(<<"Kind">>), NanLabel, Resident, NanLabel, NanText)}

NoNumbers == [strengths_requested |-> 0, improvements_requested |-> 0, top_requested |-> 0]
TopOne    == [strengths_requested |-> 0, improvements_requested |-> 0, top_requested |-> 1]

TextQueries ==
    [competency_focus : {"", "clinical_reasoning"},
     rotation_filters : {<<>>, <<<<"Surgery">>>>},
     specific_numbers : {NoNumbers, TopOne}]

\* a pattern of the LLM's answer
LlmPattern(is_str, evidence) ==
    [is_str |-> is_str, pattern_text |-> Label(<<"Great", "reasoning">>),
     supporting_evidence |-> evidence]

\* the competency analyses of the LLM's answers
LlmAnswers ==
    LET e1 == Evidence(Attending, Label(<<"Medicine">>), DateText("num", "-", 2023, 1, 1, FALSE))
        e2 == Evidence(Resident, Label(<<"Surgery">>), DateText("num", "-", 2023, 1, 10, FALSE))
        e3 == Evidence(Attending, Label(<<"Clinical", "Performance", "Assessment", "Pediatrics">>),
                       DateText("num", "-", 2023, 3, 1, FALSE))
        e4 == Evidence(Label(<<"Resident", "/", "Attending">>), Label(<<"medicine">>),
                       DateText("num", "/", 1, 1, 23, FALSE))
        e5 == Evidence(Unknown, Unknown, UnknownDate)
        e6 == Evidence(Resident, Label(<<"Clinical", "Performance", "Assessment">>), JunkText)
        e7 == Evidence(NanLabel, Label(<<"Surgery">>), NanText)
        Analysis(ss, is) == [strengths |-> ss, improvements |-> is, absent |-> FALSE]
    IN  {NoCompetencyAnalysis,
         Analysis(<<LlmPattern(TRUE, <<>>)>>, <<LlmPattern(FALSE, <<e1>>)>>),
         Analysis(<<LlmPattern(FALSE, <<e1, e2>>), LlmPattern(FALSE, <<e4>>)>>,
                  <<LlmPattern(FALSE, <<e1, e2, e3>>)>>),
         Analysis(<<LlmPattern(FALSE, <<e1, e4>>), LlmPattern(FALSE, <<e1, e2, e3, e2>>)>>, <<>>),
         Analysis(<<LlmPattern(FALSE, <<e7>>)>>, <<>>),
         Analysis(<<LlmPattern(FALSE, <<e5, e6>>)>>, <<LlmPattern(TRUE, <<>>)>>)}

TextIdle ==
    /\ supporting_evidence = <<>>
    /\ confidence_info = NotStored
    /\ text_rows = <<>>
    /\ text_query = NotStored
    /\ llm_answer = NotStored
    /\ text_analysis = NotStored
    /\ text_pc = "idle"

\* a call of TextAnalysisAgent._calculate_pattern_confidence
CalculatePatternConfidenceCall ==
    /\ text_pc = "evidence"
    /\ confidence_info' = CalculatePatternConfidence(supporting_evidence)
    /\ text_pc' = "scored"
    /\ UNCHANGED <<supporting_evidence, text_rows, text_query, llm_answer, text_analysis>>

\* TextAnalysisAgent.run when the LLM answers with JSON
TextRunLlmAnswered ==
    /\ text_pc = "start"
    /\ \E answer \in LlmAnswers :
          /\ llm_answer' = answer
          /\ text_analysis' = TextAnalysisOf(answer, text_rows, text_query)
    /\ text_pc' = "done"
    /\ UNCHANGED <<supporting_evidence, confidence_info, text_rows, text_query>>

\* TextAnalysisAgent.run when the LLM call fails or its answer is no JSON
TextRunLlmFailed ==
    /\ text_pc = "start"
    /\ llm_answer' = LlmFailure
    /\ text_analysis' = TextAnalysisOf(LlmFailure, text_rows, text_query)
    /\ text_pc' = "done"
    /\ UNCHANGED <<supporting_evidence, confidence_info, text_rows, text_query>>

(***************************************************************************)
(* The direction rules of the temporal progression and of the trend        *)
(* classifier, each applied to a change value.                             *)
(***************************************************************************)
\* changes from -0.60 to 0.60 in steps of 0.01
MaxChangeHundredths == 60

ChangeValues == {Rat(k, 100) : k \in (0 - MaxChangeHundredths)..MaxChangeHundredths}

DirIdle ==
    /\ change_value = RInt(0)
    /\ direction = "none"
    /\ direction_by = "none"

\* lines 264-275 of _analyze_temporal_progression
TemporalDirectionCall ==
    /\ direction_by = "none"
    /\ direction' = TemporalDirection(change_value)
    /\ direction_by' = "temporal"
    /\ UNCHANGED change_value

\* lines 319-326 of _calculate_trend_fixed
TrendDirectionCall ==
    /\ direction_by = "none"
    /\ direction' = TrendDirection(change_value, AgentStableThreshold)
    /\ direction_by' = "trend"
    /\ UNCHANGED change_value

(***************************************************************************)
(* The orchestrated run.  OrchestratorAgent.run stores its inputs in the   *)
(* shared memory and calls the six stages in turn; the stages exchange     *)
(* their results through SharedMemory.get and SharedMemory.set.  A value   *)
(* held by the memory carries its Python type: None, a list, a dict, a     *)
(* str.  The answer of a stage's LLM call is an exception, prose that is   *)
(* no JSON, or JSON text: null, a list, an object.                         *)
(***************************************************************************)
MaxOrchRows == 2

PyList(v)  == [kind |-> "list", items |-> v]
PyDict(v)  == [kind |-> "dict", v |-> v]
PyStr(v)   == [kind |-> "str", words |-> v]
EmptyDict  == [kind |-> "emptydict"]

\* Python truthiness of a value of the memory
PyTruthy(x) ==
    /\ x.kind \notin {"None", "emptydict"}
    /\ x.kind = "list" => x.items # <<>>
    /\ x.kind = "str" => x.words # <<>>

IsDict(x) == x.kind \in {"dict", "emptydict"}

\* the outcomes of chain.invoke followed by json.loads
LlmRaises == [kind |-> "raises"]
LlmProse  == [kind |-> "prose"]
JsonNull  == PyNone
JsonList  == PyList(<<1>>)

\* the outcome of a stage whose run raised
StageRaised == [kind |-> "raised"]

\* SharedMemory.__init__
MemoryKeys ==
    {"parsed_data", "structured_query", "numeric_analysis", "text_analysis",
     "consolidated_summary", "raw_table", "columns", "user_query"}

EmptyMemory == [k \in MemoryKeys |-> PyNone]

EmptySession == [last_response |-> PyNone]

\* SharedMemory.get
MemoryGet(mem, key, default) ==
    IF key \in DOMAIN mem
    THEN (IF mem[key] # PyNone THEN mem[key] ELSE default)
    ELSE default

\* SharedMemory.set
MemorySet(mem, key, value) ==
    IF key \in DOMAIN mem THEN [mem EXCEPT ![key] = value] ELSE mem

\* SharedMemory.set_session_data
SetSessionData(session, key, value) ==
    [k \in DOMAIN session \cup {key} |-> IF k = key THEN value ELSE session[k]]

\* the entries the logs keep of a get and of a set
ReadEntry(stage, key, mem, writes) ==
    [stage |-> stage, key |-> key,
     null  |-> (key \notin DOMAIN mem \/ mem[key] = PyNone),
     at    |-> Len(writes)]

ReadEntries(stage, keys, mem, writes) == {ReadEntry(stage, k, mem, writes) : k \in keys}

WriteEntry(stage, key, value) == [stage |-> stage, key |-> key, null |-> (value = PyNone)]

\* a row of the table handed to the run
OrchRow(form, date, role, strengths, improvements, e2) ==
    [form_name |-> form, release_date |-> date, evaluator_role |-> role,
     strengths_comment |-> strengths, improvements_comment |-> improvements,
     epa1 |-> PyNan, epa2 |-> e2, comm_other |-> PyNan]

OrchColumns ==
    <<"form_name", "release_date", "evaluator_role", "strengths_comment",
      "improvements_comment", "epa1", "epa2", "comm_other">>

\* two complete rows, a row with a blank release date, a row with a blank role
OrchRowPool ==
    {OrchRow(Label(<<"Medicine">>), Jan1, Attending,
             Label(<<"Great", "reasoning">>), NanLabel, PyNum(2)),
     OrchRow(Label(<<"Surgery">>), Apr1, Resident,
             Label(<<"great", "reasoning">>), Label(<<"Kind">>), PyNum(3)),
     OrchRow(Label(<<"Medicine">>), NanText, Attending,
             Label(<<"Great", "reasoning">>), NanLabel, PyNum(2)),
     OrchRow(Label(<<"Surgery">>), Jan1, NanLabel,
             Label(<<"Great", "reasoning">>), NanLabel, PyNum(3))}

\* the user queries, as their words
UserQueries == {<<"my", "Reasoning", "over time">>, <<"2", "strengths">>}

\* datetime.now() during the run
OrchToday == DateTime(2023, 7, 15)

\* DataIngestionAgent._process_data_with_map on the columns of the run
ParsedOrchRow(row, now) ==
    LET parsed_row == ParsedRow(row, now)
    IN  [form_name            |-> parsed_row.form_name,
         release_date         |-> parsed_row.release_date,
         epa1                 |-> parsed_row.epa1,
         epa2                 |-> parsed_row.epa2,
         comm_other           |-> parsed_row.comm_other,
         recency_weight       |-> parsed_row.recency_weight,
         release_date_str     |-> parsed_row.release_date_str,
         evaluator_role       |-> row.evaluator_role,
         strengths_comment    |-> row.strengths_comment,
         improvements_comment |-> row.improvements_comment]

ParsedOrchRows(table, now) == [i \in 1..Len(table) |-> ParsedOrchRow(table[i], now)]

\* the defaults QueryUnderstandingAgent.run adds to the LLM's object
\* ("" stands for None, 0 for a number that is not requested)
QueryDefaults ==
    [query_type         |-> "general_performance",
     competency_focus   |-> "",
     temporal_dimension |-> FALSE,
     specific_numbers   |-> NoNumbers,
     rotation_filters   |-> <<>>]

WithQueryDefaults(obj) ==
    [k \in DOMAIN QueryDefaults |-> IF k \in DOMAIN obj THEN obj[k] ELSE QueryDefaults[k]]

\* the number in front of strength(s): re.search(r'(\d+)\s*strengths?', ...)
StrengthsRequested(query_lower) ==
    LET hits == {i \in 1..(Len(query_lower) - 1) :
                    /\ query_lower[i] \in DOMAIN IntLiterals
                    /\ query_lower[i + 1] \in {"strength", "strengths"}}
    IN  IF hits = {} THEN 0
        ELSE IntLiterals[query_lower[CHOOSE i \in hits : \A j \in hits : i <= j]]

\* QueryUnderstandingAgent._enhanced_fallback
QueryEnhancedFallback(user_query) ==
    LET query_lower == Lower(user_query)
        Has(kws)    == \E kw \in kws : Contains(query_lower, <<kw>>)
        is_temporal ==
            Has({"over time", "changed", "improved", "progression", "trend"})
        competency_focus ==
            IF Has({"clinical reasoning", "reasoning"}) THEN "clinical_reasoning"
            ELSE IF Has({"communication"}) THEN "communication"
            ELSE IF Has({"professionalism"}) THEN "professionalism"
            ELSE ""
        query_type ==
            IF is_temporal THEN "temporal_trends"
            ELSE IF Has({"strength", "strengths"}) THEN "current_strengths"
            ELSE IF Has({"improve", "weakness"}) THEN "areas_for_improvement"
            ELSE IF competency_focus # "" THEN "specific_skill_analysis"
            ELSE "general_performance"
    IN  [query_type         |-> query_type,
         competency_focus   |-> competency_focus,
         temporal_dimension |-> is_temporal,
         specific_numbers   |-> [strengths_requested    |-> StrengthsRequested(query_lower),
                                 improvements_requested |-> 0,
                                 top_requested          |-> 0],
         rotation_filters   |-> <<>>]

\* the objects the query LLM answers with: {} and a query with a filter
LlmQueryObjects ==
    {EmptyDict,
     PyDict([temporal_dimension |-> TRUE, rotation_filters |-> <<<<"Surgery">>>>])}

\* QueryUnderstandingAgent.run: what it stores as structured_query
StructuredQueryOf(outcome, user_query) ==
    IF outcome.kind = "dict" THEN PyDict(WithQueryDefaults(outcome.v))
    ELSE IF outcome.kind = "emptydict" THEN PyDict(QueryDefaults)
    ELSE PyDict(QueryEnhancedFallback(user_query.words))

\* structured_query.get("temporal_dimension", False)
TemporalDimensionOf(structured_query) ==
    IF structured_query.kind = "dict" THEN structured_query.v.temporal_dimension ELSE FALSE

\* the object the numeric LLM answers with
LlmNumericAnalysis == PyDict([by_epa |-> <<>>, source |-> "llm"])

\* NumericAnalysisAgent.run: what it stores as numeric_analysis, StageRaised
\* when the fallback raises
NumericFallbackOf(analysis) ==
    IF analysis = AnalysisRaised THEN StageRaised ELSE PyDict(analysis)

NumericAnalysisOf(outcome, data, structured_query) ==
    IF outcome.kind \in {"raises", "prose"}
    THEN NumericFallbackOf(
             EnhancedFallbackAnalysis(data.items, TemporalDimensionOf(structured_query)))
    ELSE outcome

\* TextAnalysisAgent.run from line 43 on: what it stores as text_analysis,
\* StageRaised when it raises; None and a list fail in the enhancement step
TextStoredOf(analysis) ==
    IF analysis = NotStored THEN StageRaised ELSE PyDict(analysis)

OrchTextAnalysisOf(outcome, data, structured_query) ==
    TextStoredOf(TextAnalysisOf(IF outcome.kind = "dict" THEN outcome.v ELSE LlmFailure,
                                data.items, structured_query.v))

\* the object the consolidation LLM answers with
LlmSummary == PyDict([summary |-> <<"llm", "summary">>, key_findings |-> <<>>])

\* a finding of _fallback_consolidation (the texts of the model are shorter
\* than the 50 and 100 characters the slices keep)
Finding(category, pattern) ==
    [category     |-> category,
     title        |-> pattern.pattern_text,
     evidence     |-> [i \in 1..Len(Take(pattern.supporting_evidence, 2)) |->
                          pattern.supporting_evidence[i].text],
     confidence   |-> pattern.confidence,
     source_count |-> Len(pattern.supporting_evidence)]

KeyFindings(text_result) ==
    IF PyTruthy(text_result) /\ ~text_result.v.absent
    THEN [i \in 1..Len(text_result.v.strengths) |->
             Finding("strength", text_result.v.strengths[i])]
         \o [i \in 1..Len(text_result.v.improvements) |->
                Finding("improvement", text_result.v.improvements[i])]
    ELSE <<>>

\* ConsolidationAgent._fallback_consolidation; numeric_analysis.get raises on
\* a value that is truthy and no dict
FallbackConsolidation(user_query, numeric_result, text_result) ==
    IF PyTruthy(numeric_result) /\ ~IsDict(numeric_result) THEN StageRaised
    ELSE PyDict([summary         |-> <<"Analysis for query:">> \o user_query.words,
                 key_findings    |-> Take(KeyFindings(text_result), 5),
                 relevant_scores |-> IF PyTruthy(numeric_result)
                                     THEN numeric_result.v.by_epa ELSE <<>>])

\* ConsolidationAgent.run: what it stores as consolidated_summary
ConsolidatedSummaryOf(outcome, user_query, numeric_result, text_result) ==
    IF IsDict(outcome) THEN outcome
    ELSE FallbackConsolidation(user_query, numeric_result, text_result)

\* ResponseGenerationAgent._clean_response
CleanResponse(words) ==
    [i \in 1..Len(words) |->
        CASE words[i] = "The student" -> "You"
          [] words[i] = "He"          -> "You"
          [] words[i] = "She"         -> "You"
          [] words[i] = "His"         -> "Your"
          [] words[i] = "Her"         -> "Your"
          [] OTHER                    -> words[i]]

\* ResponseGenerationAgent._fallback_response
FallbackResponse(user_query, consolidated_summary) ==
    IF ~PyTruthy(consolidated_summary)
    THEN PyStr(<<"I apologize">> \o user_query.words)
    ELSE PyStr(<<"# Response to:">> \o user_query.words \o consolidated_summary.v.summary)

\* the text the response LLM answers with
LlmResponseText == PyStr(<<"The student", "reasons", "well">>)

\* ResponseGenerationAgent.run: what it returns
ResponseOf(outcome, user_query, consolidated_summary) ==
    IF outcome.kind = "str" THEN PyStr(CleanResponse(outcome.words))
    ELSE FallbackResponse(user_query, consolidated_summary)

OrchIdle ==
    /\ orch_pc = "idle"
    /\ memory = EmptyMemory
    /\ session_memory = EmptySession
    /\ stage_log = <<>>
    /\ write_log = <<>>
    /\ read_log = {}
    /\ response = PyNone

\* the stages in the order run calls them
StageOrder ==
    <<"data_ingestion", "query_understanding", "numeric_analysis",
      "text_analysis", "consolidation", "response_generation">>

\* lines 58-61 of OrchestratorAgent.run: the inputs are stored
OrchestratorRunStart ==
    /\ orch_pc = "constructed"
    /\ \E table \in SeqsUpTo(OrchRowPool, MaxOrchRows), user_query \in UserQueries :
          /\ memory' = MemorySet(MemorySet(MemorySet(memory, "raw_table", PyList(table)),
                                           "columns", PyList(OrchColumns)),
                                 "user_query", PyStr(user_query))
          /\ write_log' = write_log
                \o <<WriteEntry("orchestrator", "raw_table", PyList(table)),
                     WriteEntry("orchestrator", "columns", PyList(OrchColumns)),
                     WriteEntry("orchestrator", "user_query", PyStr(user_query))>>
    /\ orch_pc' = "data_ingestion"
    /\ UNCHANGED <<session_memory, stage_log, read_log, response>>

\* the entry the log keeps of a stage: its name and what its LLM call did
\* ("none" for the stage without an LLM call)
StageEntry(stage, llm) == [stage |-> stage, llm |-> llm]

\* the stage stored its result and returned, or raised out of run
StageEnds(stage, llm, key, value, next_pc) ==
    /\ stage_log' = Append(stage_log, StageEntry(stage, llm))
    /\ IF value = StageRaised
       THEN /\ orch_pc' = "raised"
            /\ UNCHANGED <<memory, write_log>>
       ELSE /\ orch_pc' = next_pc
            /\ memory' = MemorySet(memory, key, value)
            /\ write_log' = Append(write_log, WriteEntry(stage, key, value))

\* DataIngestionAgent.run
DataIngestionRun ==
    /\ orch_pc = "data_ingestion"
    /\ read_log' = read_log
          \cup ReadEntries("data_ingestion", {"raw_table", "columns"}, memory, write_log)
    /\ StageEnds("data_ingestion", "none", "parsed_data",
                 PyList(ParsedOrchRows(MemoryGet(memory, "raw_table", PyNone).items, OrchToday)),
                 "query_understanding")
    /\ UNCHANGED <<session_memory, response>>

\* QueryUnderstandingAgent.run
QueryUnderstandingRun ==
    /\ orch_pc = "query_understanding"
    /\ read_log' = read_log
          \cup ReadEntries("query_understanding", {"user_query"}, memory, write_log)
    /\ \E outcome \in {LlmRaises, LlmProse, JsonNull, JsonList} \cup LlmQueryObjects :
          StageEnds("query_understanding", outcome.kind, "structured_query",
                    StructuredQueryOf(outcome, MemoryGet(memory, "user_query", PyNone)),
                    "numeric_analysis")
    /\ UNCHANGED <<session_memory, response>>

\* NumericAnalysisAgent.run
NumericAnalysisRun ==
    /\ orch_pc = "numeric_analysis"
    /\ read_log' = read_log
          \cup ReadEntries("numeric_analysis",
                           {"user_query", "structured_query", "parsed_data"},
                           memory, write_log)
    /\ \E outcome \in {LlmRaises, LlmProse, JsonNull, JsonList, LlmNumericAnalysis} :
          StageEnds("numeric_analysis", outcome.kind, "numeric_analysis",
                    NumericAnalysisOf(outcome,
                                      MemoryGet(memory, "parsed_data", PyNone),
                                      MemoryGet(memory, "structured_query", EmptyDict)),
                    "text_analysis")
    /\ UNCHANGED <<session_memory, response>>

\* TextAnalysisAgent.run
TextAnalysisRun ==
    /\ orch_pc = "text_analysis"
    /\ read_log' = read_log
          \cup ReadEntries("text_analysis",
                           {"user_query", "structured_query", "parsed_data"},
                           memory, write_log)
    /\ IF ~PyTruthy(MemoryGet(memory, "structured_query", PyNone))
       THEN \* line 39: return {} and store nothing
            /\ stage_log' = Append(stage_log, StageEntry("text_analysis", "none"))
            /\ orch_pc' = "consolidation"
            /\ UNCHANGED <<memory, write_log>>
       ELSE \E outcome \in {LlmRaises, LlmProse, JsonNull, JsonList}
                               \cup {PyDict(a) : a \in LlmAnswers} :
               StageEnds("text_analysis", outcome.kind, "text_analysis",
                         OrchTextAnalysisOf(outcome,
                                            MemoryGet(memory, "parsed_data", PyNone),
                                            MemoryGet(memory, "structured_query", PyNone)),
                         "consolidation")
    /\ UNCHANGED <<session_memory, response>>

\* ConsolidationAgent.run
ConsolidationRun ==
    /\ orch_pc = "consolidation"
    /\ read_log' = read_log
          \cup ReadEntries("consolidation",
                           {"user_query", "structured_query", "numeric_analysis",
                            "text_analysis"},
                           memory, write_log)
    /\ \E outcome \in {LlmRaises, LlmProse, JsonNull, JsonList, EmptyDict, LlmSummary} :
          StageEnds("consolidation", outcome.kind, "consolidated_summary",
                    ConsolidatedSummaryOf(outcome,
                                          MemoryGet(memory, "user_query", PyNone),
                                          MemoryGet(memory, "numeric_analysis", PyNone),
                                          MemoryGet(memory, "text_analysis", PyNone)),
                    "response_generation")
    /\ UNCHANGED <<session_memory, response>>

\* ResponseGenerationAgent.run, called at line 99
ResponseGenerationRun ==
    /\ orch_pc = "response_generation"
    /\ read_log' = read_log
          \cup ReadEntries("response_generation",
                           {"user_query", "structured_query", "consolidated_summary",
                            "pattern_info", "parsed_data"},
                           memory, write_log)
    /\ \E outcome \in {LlmRaises, LlmResponseText} :
          /\ stage_log' = Append(stage_log, StageEntry("response_generation", outcome.kind))
          /\ response' = ResponseOf(outcome,
                                    MemoryGet(memory, "user_query", PyNone),
                                    MemoryGet(memory, "consolidated_summary", PyNone))
    /\ orch_pc' = "save_response"
    /\ UNCHANGED <<memory, session_memory, write_log>>

\* lines 109-111 of OrchestratorAgent.run
OrchestratorRunReturn ==
    /\ orch_pc = "save_response"
    /\ session_memory' = SetSessionData(session_memory, "last_response", response)
    /\ orch_pc' = "returned"
    /\ UNCHANGED <<memory, stage_log, write_log, read_log, response>>

(***************************************************************************)
(* The specifications.                                                     *)
(***************************************************************************)
InitRecency ==
    /\ date_str \in DateTexts
    /\ current_date \in NowDates
    /\ recency_weight = RInt(0)
    /\ rw_by = "none"
    /\ WmIdle /\ TrendIdle /\ SegIdle /\ NumIdle /\ TextIdle /\ DirIdle /\ OrchIdle

NextRecency ==
    \/ CalculateRecencyWeightAgent /\ UNCHANGED <<wmVars, trendVars, segVars, numVars, textVars, dirVars, orchVars>>
    \/ CalculateRecencyWeightHelper /\ UNCHANGED <<wmVars, trendVars, segVars, numVars, textVars, dirVars, orchVars>>

SpecRecency == InitRecency /\ [][NextRecency]_vars

InitWeightedMean ==
    /\ values \in SeqsUpTo(MeanValues, MaxValues)
    /\ weights \in {WNone} \cup {WList(w) : w \in SeqsUpTo(MeanWeights, MaxValues)}
    /\ wm_result = RInt(0)
    /\ wm_by = "none"
    /\ RecencyIdle /\ TrendIdle /\ SegIdle /\ NumIdle /\ TextIdle /\ DirIdle /\ OrchIdle

NextWeightedMean ==
    \/ WeightedMeanHelper /\ UNCHANGED <<recVars, trendVars, segVars, numVars, textVars, dirVars, orchVars>>
    \/ WeightedMeanAgent /\ UNCHANGED <<recVars, trendVars, segVars, numVars, textVars, dirVars, orchVars>>

SpecWeightedMean == InitWeightedMean /\ [][NextWeightedMean]_vars

InitTrend ==
    /\ scores_with_dates \in SeqsUpTo(TrendItems, MaxObservations)
    /\ trend_result = [direction |-> "none"]
    /\ trend_by = "none"
    /\ RecencyIdle /\ WmIdle /\ SegIdle /\ NumIdle /\ TextIdle /\ DirIdle /\ OrchIdle

NextTrend ==
    \/ CalculateTrendFixed /\ UNCHANGED <<recVars, wmVars, segVars, numVars, textVars, dirVars, orchVars>>
    \/ CalculateTrendHelper /\ UNCHANGED <<recVars, wmVars, segVars, numVars, textVars, dirVars, orchVars>>

SpecTrend == InitTrend /\ [][NextTrend]_vars

InitSegmenter ==
    /\ df \in SeqsUpTo(RowPool, MaxRows)
    /\ form_df = <<>>
    /\ evaluator_blocks = <<>>
    /\ clean_data = NoFrame
    /\ seg_pc = "start"
    /\ RecencyIdle /\ WmIdle /\ TrendIdle /\ NumIdle /\ TextIdle /\ DirIdle /\ OrchIdle

NextSegmenter ==
    \/ IdentifyEvaluatorBlocksCall /\ UNCHANGED <<recVars, wmVars, trendVars, numVars, textVars, dirVars, orchVars>>
    \/ ProcessData /\ UNCHANGED <<recVars, wmVars, trendVars, numVars, textVars, dirVars, orchVars>>

SpecSegmenter == InitSegmenter /\ [][NextSegmenter]_vars

InitNumeric ==
    /\ raw_table \in SeqsUpTo(NumRowPool, MaxRecords)
    /\ today \in Todays
    /\ temporal_dimension = FALSE
    /\ parsed_data = <<>>
    /\ temporal_analysis = PyNone
    /\ numeric_analysis = PyNone
    /\ num_pc = "start"
    /\ RecencyIdle /\ WmIdle /\ TrendIdle /\ SegIdle /\ TextIdle /\ DirIdle /\ OrchIdle

NextNumeric ==
    \/ IngestionRun /\ UNCHANGED <<recVars, wmVars, trendVars, segVars, textVars, dirVars, orchVars>>
    \/ NumericAnalysisFallback /\ UNCHANGED <<recVars, wmVars, trendVars, segVars, textVars, dirVars, orchVars>>

SpecNumeric == InitNumeric /\ [][NextNumeric]_vars

InitDirection ==
    /\ change_value \in ChangeValues
    /\ direction = "none"
    /\ direction_by = "none"
    /\ RecencyIdle /\ WmIdle /\ TrendIdle /\ SegIdle /\ NumIdle /\ TextIdle /\ OrchIdle

NextDirection ==
    \/ TemporalDirectionCall
           /\ UNCHANGED <<recVars, wmVars, trendVars, segVars, numVars, textVars, orchVars>>
    \/ TrendDirectionCall
           /\ UNCHANGED <<recVars, wmVars, trendVars, segVars, numVars, textVars, orchVars>>

SpecDirection == InitDirection /\ [][NextDirection]_vars

InitOrchestrator ==
    /\ orch_pc = "constructed"
    /\ memory = EmptyMemory
    /\ session_memory = EmptySession
    /\ stage_log = <<>>
    /\ write_log = <<>>
    /\ read_log = {}
    /\ response = PyNone
    /\ RecencyIdle /\ WmIdle /\ TrendIdle /\ SegIdle /\ NumIdle /\ TextIdle /\ DirIdle

NextOrchestrator ==
    \/ OrchestratorRunStart /\ UNCHANGED <<recVars, wmVars, trendVars, segVars, numVars, textVars, dirVars>>
    \/ DataIngestionRun /\ UNCHANGED <<recVars, wmVars, trendVars, segVars, numVars, textVars, dirVars>>
    \/ QueryUnderstandingRun /\ UNCHANGED <<recVars, wmVars, trendVars, segVars, numVars, textVars, dirVars>>
    \/ NumericAnalysisRun /\ UNCHANGED <<recVars, wmVars, trendVars, segVars, numVars, textVars, dirVars>>
    \/ TextAnalysisRun /\ UNCHANGED <<recVars, wmVars, trendVars, segVars, numVars, textVars, dirVars>>
    \/ ConsolidationRun /\ UNCHANGED <<recVars, wmVars, trendVars, segVars, numVars, textVars, dirVars>>
    \/ ResponseGenerationRun /\ UNCHANGED <<recVars, wmVars, trendVars, segVars, numVars, textVars, dirVars>>
    \/ OrchestratorRunReturn /\ UNCHANGED <<recVars, wmVars, trendVars, segVars, numVars, textVars, dirVars>>

SpecOrchestrator == InitOrchestrator /\ [][NextOrchestrator]_vars

InitConfidence ==
    /\ supporting_evidence \in SeqsUpTo(EvidencePool, MaxEvidence)
    /\ confidence_info = NotStored
    /\ text_rows = <<>>
    /\ text_query = NotStored
    /\ llm_answer = NotStored
    /\ text_analysis = NotStored
    /\ text_pc = "evidence"
    /\ RecencyIdle /\ WmIdle /\ TrendIdle /\ SegIdle /\ NumIdle /\ DirIdle /\ OrchIdle

NextConfidence ==
    CalculatePatternConfidenceCall /\ UNCHANGED <<recVars, wmVars, trendVars, segVars, numVars, dirVars, orchVars>>

SpecConfidence == InitConfidence /\ [][NextConfidence]_vars

InitTextRun ==
    /\ supporting_evidence = <<>>
    /\ confidence_info = NotStored
    /\ text_rows \in SeqsUpTo(TextRowPool, MaxTextRows)
    /\ text_query \in TextQueries
    /\ llm_answer = NotStored
    /\ text_analysis = NotStored
    /\ text_pc = "start"
    /\ RecencyIdle /\ WmIdle /\ TrendIdle /\ SegIdle /\ NumIdle /\ DirIdle /\ OrchIdle

NextTextRun ==
    \/ TextRunLlmAnswered /\ UNCHANGED <<recVars, wmVars, trendVars, segVars, numVars, dirVars, orchVars>>
    \/ TextRunLlmFailed /\ UNCHANGED <<recVars, wmVars, trendVars, segVars, numVars, dirVars, orchVars>>

SpecTextRun == InitTextRun /\ [][NextTextRun]_vars

(***************************************************************************)
(* Claims about the segmenter (SpecSegmenter).                             *)
(***************************************************************************)
\* the positions of the role-selection rows of a table
SentinelPositions(table) == {i \in 1..Len(table) : IsRoleRow(table[i])}

\* the k-th smallest element of a set of positions
KthPosition(S, k) == CHOOSE i \in S : Cardinality({j \in S : j <= i}) = k

RECURSIVE Flatten(_)
Flatten(blocks) ==
    IF blocks = <<>> THEN <<>> ELSE Head(blocks) \o Flatten(Tail(blocks))

\* a table without the rows that precede its first role-selection row
RECURSIVE DropLeadingRows(_)
DropLeadingRows(table) ==
    IF table = <<>> THEN <<>>
    ELSE IF IsRoleRow(Head(table)) THEN table
    ELSE DropLeadingRows(Tail(table))

\* C1: _identify_evaluator_blocks returns one block per role-selection row, in
\* row order; block k starts at the k-th role-selection row, holds the rows up
\* to but not including the next one (or up to the end of the group), so it
\* holds exactly one role-selection row, its first; rows before the first
\* role-selection row are in no block and a group without one yields no block.
C1_BlocksAtSentinels ==
    seg_pc = "blocks" =>
        LET sent == SentinelPositions(form_df)
        IN  /\ Len(evaluator_blocks) = Cardinality(sent)
            /\ \A k \in 1..Len(evaluator_blocks) :
                  LET b     == evaluator_blocks[k]
                      start == KthPosition(sent, k)
                  IN  /\ b # <<>>
                      /\ IsRoleRow(b[1])
                      /\ \A j \in 2..Len(b) : ~IsRoleRow(b[j])
                      /\ \A j \in 1..Len(b) : b[j] = form_df[start + j - 1]
                      /\ \/ start + Len(b) = Len(form_df) + 1
                         \/ IsRoleRow(form_df[start + Len(b)])

\* two blocks were cut from a group that starts with a row of no evaluator
C1_Witness ==
    /\ seg_pc = "blocks"
    /\ Len(form_df) = 3
    /\ ~IsRoleRow(form_df[1])
    /\ Len(evaluator_blocks) = 2

\* C2 as stated: concatenating the blocks, in block order, reproduces the
\* group's row sequence: same rows, same order, none missing.
C2_ConcatReproducesGroup ==
    seg_pc = "blocks" => Flatten(evaluator_blocks) = form_df

\* C2 amended: concatenating the blocks, in block order, reproduces the group's
\* row sequence from its first role-selection row on (the rows before it are
\* in no block, and no row is in two blocks).
C2_ConcatReproducesGroupFromFirstSentinel ==
    seg_pc = "blocks" => Flatten(evaluator_blocks) = DropLeadingRows(form_df)

\* a group with a leading row and rows after the role-selection row was segmented
C2_Witness ==
    /\ seg_pc = "blocks"
    /\ Len(form_df) = 3
    /\ ~IsRoleRow(form_df[1])
    /\ IsRoleRow(form_df[2])
    /\ ~IsRoleRow(form_df[3])
    /\ Len(evaluator_blocks) = 1

\* C3: _process_data emits no record from a group whose form name, phase name,
\* academic year or release date is the empty string.
C3_NoRecordFromEmptyKeyComponent ==
    seg_pc = "processed" =>
        \A i \in 1..Len(clean_data.rows) :
            /\ clean_data.rows[i]["form_name"] # StrV(<<>>)
            /\ clean_data.rows[i]["phase_name"] # StrV(<<>>)
            /\ clean_data.rows[i]["academic_year"] # StrV(<<>>)
            /\ clean_data.rows[i]["release_date"] # StrV(<<>>)

\* C4: the table returned by _process_data has the fixed column set, also when
\* the input yields no record, and every record holds a value (null when the
\* block did not supply one) for each of these columns.
C4_FixedColumnSet ==
    seg_pc = "processed" =>
        /\ clean_data.columns = AllColumns
        /\ \A i \in 1..Len(clean_data.rows) : DOMAIN clean_data.rows[i] = AllColumns

(***************************************************************************)
(* Claims about the recency weight (SpecRecency).                          *)
(***************************************************************************)
\* the date the applied function parsed the text to (NoDate: not parseable)
ParsedBy(by, t) ==
    IF by = "helper" THEN parse_date(t)
    ELSE IF Truthy(t) THEN TryFormats(t, AgentDateFormats) ELSE NoDate

WeightBy(by, t, now) ==
    IF by = "helper" THEN HelperRecencyWeight(t, now) ELSE AgentRecencyWeight(t, now)

MonthsOld(now, d) == (now.year - d.year) * 12 + (now.month - d.month)

\* dates the monotonicity is probed against
ProbeDates ==
    {DateText("num", "-", y, m, 1, FALSE) : y \in {2022, 2023}, m \in {1, 4, 7, 10}}

\* C5: for a parseable date with months = (now.year - date.year)*12 +
\* (now.month - date.month), the weight is 1 when months <= 3, 0 when
\* months >= 9 and 1 - (months - 3)/6 between (1 at 3, 1/2 at 6, 0 at 9
\* months); it lies in [0,1] also for dates later than now and does not
\* increase as months grows.
C5_RecencyWeightRule ==
    (rw_by # "none" /\ ParsedBy(rw_by, date_str) \notin {NoDate, TypeErr}) =>
        LET m == MonthsOld(current_date, ParsedBy(rw_by, date_str))
            w == recency_weight
        IN  /\ ~Raised(w)
            /\ m <= 3 => w = RInt(1)
            /\ m >= 9 => w = RInt(0)
            /\ (3 < m /\ m < 9) => 6 * w.n = (9 - m) * w.d
            /\ m = 6 => w = Rat(1, 2)
            /\ RLe(RInt(0), w) /\ RLe(w, RInt(1))
            /\ \A t \in ProbeDates :
                  MonthsOld(current_date, ParsedBy(rw_by, t)) >= m
                      => RLe(WeightBy(rw_by, t, current_date), w)

\* the agent weighted a date that is six months old
C5_Witness ==
    /\ rw_by = "agent"
    /\ ParsedBy("agent", date_str) \notin {NoDate, TypeErr}
    /\ MonthsOld(current_date, ParsedBy("agent", date_str)) = 6
    /\ recency_weight = Rat(1, 2)

\* C6: for a missing (None or '') or unparseable release date the weight is
\* exactly 1/2, for DataIngestionAgent._calculate_recency_weight as for
\* data_helpers.calculate_recency_weight.
C6_FallbackWeightIsHalf ==
    (rw_by # "none" /\ ParsedBy(rw_by, date_str) = NoDate) =>
        recency_weight = Rat(1, 2)

C8_UniformFallback ==
    (/\ wm_by # "none"
     /\ values # <<>>
     /\ (~WTruthy(weights) \/ Len(weights.w) # Len(values))) =>
        RMul(wm_result, RInt(Len(values))) = RSum(values)

(***************************************************************************)
(* Claims about the trend classifiers (SpecTrend).                         *)
(***************************************************************************)
\* a text in one of the accepted formats YYYY-MM-DD, M/D/YY, M/D/YYYY,
\* D/M/YYYY, YYYY/M/D, by its shape
IsAcceptedDateText(t) ==
    /\ t.form = "num"
    /\ ~t.time
    /\ \/ Digits(t.a) = 4 /\ ValidYMD(t.a, t.b, t.c)
       \/ t.sep = "/" /\ Digits(t.c) = 2 /\ ValidYMD(Year2(t.c), t.a, t.b)
       \/ t.sep = "/" /\ Digits(t.c) = 4 /\ ValidYMD(t.c, t.a, t.b)
       \/ t.sep = "/" /\ Digits(t.c) = 4 /\ ValidYMD(t.c, t.b, t.a)

AcceptedItems(items) == {i \in 1..Len(items) : IsAcceptedDateText(items[i].date)}

\* C9: direction is "stable" exactly when |change| < 0.3, "improving" when
\* change >= 0.3 and "declining" when change <= -0.3, for
\* _calculate_trend_fixed and for data_helpers.calculate_trend (observations
\* whose dates are all texts, at least two of them parseable).
C9_DirectionThreshold ==
    (/\ trend_by # "none"
     /\ Cardinality(AcceptedItems(scores_with_dates)) >= 2
     /\ \A i \in 1..Len(scores_with_dates) : scores_with_dates[i].date # NanText) =>
        LET change == trend_result.change
        IN  trend_result.direction =
                IF RLt(RAbs(change), Rat(3, 10)) THEN "stable"
                ELSE IF RLe(Rat(3, 10), change) THEN "improving"
                ELSE "declining"

\* C10: _calculate_trend_fixed discards the observations whose date cannot be
\* parsed and raises no error: with fewer than two parseable observations it
\* returns direction "stable" and magnitude 0, and with two or more it returns
\* a computed trend.
C10_FewerThanTwoParseable ==
    trend_by = "agent" =>
        IF Cardinality(AcceptedItems(scores_with_dates)) < 2
        THEN trend_result = [direction |-> "stable", magnitude |-> RInt(0)]
        ELSE /\ "change" \in DOMAIN trend_result
             /\ \E i \in AcceptedItems(scores_with_dates) :
                   trend_result.earliest_score = scores_with_dates[i].score
             /\ \E i \in AcceptedItems(scores_with_dates) :
                   trend_result.most_recent_score = scores_with_dates[i].score

(***************************************************************************)
(* Claims about ingestion and numeric analysis (SpecNumeric).              *)
(***************************************************************************)
\* the records whose release date is a text in an accepted format
DatedRecords(table) == {i \in 1..Len(table) : IsAcceptedDateText(table[i].release_date)}

\* C11: _analyze_temporal_progression returns the "not performed" marker
\* whenever the temporal flag is off; with the flag on and fewer than two
\* records with a parseable release date it returns the "insufficient data"
\* marker, which differs from "not performed"; neither case raises.
C11_TemporalMarkers ==
    num_pc = "analysed" =>
        /\ ~temporal_dimension => temporal_analysis = NotPerformed
        /\ (temporal_dimension /\ Cardinality(DatedRecords(raw_table)) < 2) =>
               /\ temporal_analysis = InsufficientData
               /\ temporal_analysis # NotPerformed

\* the records of the parsed data whose value for the field is a number
RECURSIVE ValuedRows(_, _)
ValuedRows(data, field) ==
    IF data = <<>> THEN <<>>
    ELSE IF Head(data)[field].kind = "num"
         THEN <<Head(data)>> \o ValuedRows(Tail(data), field)
         ELSE ValuedRows(Tail(data), field)

\* the per-field statistics the analysis reports, by field
ReportedStats == 
    [f \in (DOMAIN numeric_analysis.by_epa) \cup (DOMAIN numeric_analysis.by_communication) |->
        IF f \in DOMAIN numeric_analysis.by_epa
        THEN numeric_analysis.by_epa[f] ELSE numeric_analysis.by_communication[f]]

\* the statistics of a field count exactly the records that have a value for it
CountsOnlyValued(f) ==
    LET rows == ValuedRows(parsed_data, f)
        vs   == [i \in 1..Len(rows) |-> rows[i][f].v]
        ws   == [i \in 1..Len(rows) |-> rows[i].recency_weight]
    IN  IF rows = <<>> THEN f \notin DOMAIN ReportedStats
        ELSE /\ f \in DOMAIN ReportedStats
             /\ ReportedStats[f].count = Len(rows)
             /\ ReportedStats[f].raw_avg = Round2(RDiv(RSum(vs), RInt(Len(rows))))
             /\ ReportedStats[f].weighted_avg =
                    Round2(IF RSum(ws) = RInt(0) THEN RInt(0)
                           ELSE RDiv(ZipProductSum(vs, ws), RSum(ws)))

\* C12: in the per-field statistics of _enhanced_fallback_analysis a record
\* whose value for a field is null contributes to neither the field's count,
\* its raw mean, nor its weighted mean, and a field for which no record has a
\* value is not reported.
C12_NullsNotAggregated ==
    (num_pc = "analysed" /\ numeric_analysis # AnalysisRaised) =>
        \A k \in 1..Len(NumericFields) : CountsOnlyValued(NumericFields[k])

\* the scenario: three records dated 2023-01-01, 2023-04-01 and 2023-07-01
\* with epa2 scores 2, 3, 4, ingested on 2023-07-15 and analysed
Scenario ==
    /\ num_pc = "analysed"
    /\ today = DateTime(2023, 7, 15)
    /\ Len(raw_table) = 3
    /\ raw_table[1].release_date = Jan1
    /\ raw_table[2].release_date = Apr1
    /\ raw_table[3].release_date = Jul1
    /\ raw_table[1].epa2 = PyNum(2)
    /\ raw_table[2].epa2 = PyNum(3)
    /\ raw_table[3].epa2 = PyNum(4)

ScenarioWeights == [i \in 1..Len(parsed_data) |-> parsed_data[i].recency_weight]

\* C17 (as stated): in the scenario the recency weights are 0.0, 0.75 and 1.0,
\* the weighted average of epa2 is (2*0 + 3*0.75 + 4*1.0)/1.75, about 3.57,
\* and the epa2 trend is "improving" with magnitude 0.5.
C17_ScenarioAsStated ==
    Scenario =>
        /\ ScenarioWeights = <<RInt(0), Rat(3, 4), RInt(1)>>
        /\ numeric_analysis.by_epa["epa2"].weighted_avg = Rat(357, 100)
        /\ numeric_analysis.by_epa["epa2"].recent_trend.direction = "improving"
        /\ numeric_analysis.by_epa["epa2"].recent_trend.magnitude = Rat(1, 2)

\* C17 (amended): in the scenario the records are 6, 3 and 0 months old, so
\* the recency weights are 0.5, 1.0 and 1.0, the weighted average of epa2 is
\* (2*0.5 + 3*1.0 + 4*1.0)/2.5 = 3.2, and the epa2 trend is "improving" with
\* magnitude 0.5.
C17_ScenarioByTheRule ==
    Scenario =>
        /\ ScenarioWeights = <<Rat(1, 2), RInt(1), RInt(1)>>
        /\ numeric_analysis.by_epa["epa2"].weighted_avg = Rat(16, 5)
        /\ numeric_analysis.by_epa["epa2"].recent_trend.direction = "improving"
        /\ numeric_analysis.by_epa["epa2"].recent_trend.magnitude = Rat(1, 2)

\* the scenario was ingested and analysed, and epa2 was reported
C17_Witness ==
    /\ Scenario
    /\ numeric_analysis # AnalysisRaised
    /\ "epa2" \in DOMAIN numeric_analysis.by_epa
    /\ numeric_analysis.by_epa["epa2"].count = 3

(***************************************************************************)
(* Claims about the pattern confidence (SpecConfidence, SpecTextRun).      *)
(***************************************************************************)
\* every label of the evidence is a str
StrLabels(evidence) ==
    \A i \in 1..Len(evidence) :
        evidence[i].rotation.kind = "str" /\ evidence[i].evaluator_role.kind = "str"

\* C13: for every evidence set (any number of items, any rotation labels,
\* date strings and role strings) the score of _calculate_pattern_confidence
\* satisfies 0.0 <= score <= 1.0.
C13_ScoreInUnitInterval ==
    (text_pc = "scored" /\ StrLabels(supporting_evidence)) =>
        /\ ~Raised(confidence_info.score)
        /\ RLe(RInt(0), confidence_info.score)
        /\ RLe(confidence_info.score, RInt(1))

\* four evidence items with every boost were scored: 1.0 * 1.3 * 1.2 * 1.1 is capped
C13_Witness ==
    /\ text_pc = "scored"
    /\ Len(supporting_evidence) = 4
    /\ StrLabels(supporting_evidence)
    /\ RLt(RInt(1), RMul(BaseScore(4), Multiplier(supporting_evidence)))
    /\ confidence_info.score = RInt(1)

\* C14: a pattern supported by exactly one evidence item always scores exactly
\* 0.1, for every value of the item's role string, rotation label and date.
C14_SingleEvidenceScoresTenth ==
    (/\ text_pc = "scored"
     /\ Len(supporting_evidence) = 1
     /\ StrLabels(supporting_evidence)) =>
        confidence_info.score = Rat(1, 10)

\* C15: on an empty evidence set _calculate_pattern_confidence returns score
\* 0.0, level "low" and description "No supporting evidence".
C15_EmptyEvidence ==
    (text_pc = "scored" /\ supporting_evidence = <<>>) =>
        /\ confidence_info.score = RInt(0)
        /\ confidence_info.confidence = "low"
        /\ confidence_info.description = "No supporting evidence"

\* the empty evidence set was scored
C15_Witness ==
    /\ text_pc = "scored"
    /\ supporting_evidence = <<>>
    /\ confidence_info = NoEvidence

\* the patterns of the stored text analysis
SurfacedPatterns ==
    IF text_analysis = NotStored THEN {}
    ELSE {text_analysis.strengths[i] : i \in 1..Len(text_analysis.strengths)}
         \cup {text_analysis.improvements[i] : i \in 1..Len(text_analysis.improvements)}

\* C16: every pattern (strength or improvement) TextAnalysisAgent surfaces,
\* through the LLM-result path or the fallback path, has a confidence score
\* >= 0.15: no pattern scoring below 0.15 is in the stored text_analysis.
C16_SurfacedPatternsAboveThreshold ==
    text_pc = "done" =>
        \A pattern \in SurfacedPatterns :
            /\ ~Raised(pattern.confidence_info.score)
            /\ RLe(Rat(3, 20), pattern.confidence_info.score)

\* the LLM-result path surfaced one strength and dropped a single-evidence one
C16_Witness ==
    /\ text_pc = "done"
    /\ llm_answer # LlmFailure
    /\ llm_answer # NoCompetencyAnalysis
    /\ text_query.specific_numbers = NoNumbers
    /\ Len(llm_answer.strengths) = 2
    /\ text_analysis # NotStored
    /\ Len(text_analysis.strengths) = 1
    /\ RLe(Rat(3, 20), text_analysis.strengths[1].confidence_info.score)

(***************************************************************************)
(* Claims about the emitted records (SpecSegmenter).                       *)
(***************************************************************************)
\* the raw release-date forms: M/D/YY with and without a time part, M/D/YYYY
\* with and without a time part, and ISO
ExportDateForms == {Date1, ShortYearDate, LongYearTimeDate, LongYearDate, IsoDate}

\* a text of the form YYYY-MM-DD
IsIsoText(text) ==
    /\ Len(text) = 1
    /\ "form" \in DOMAIN text[1]
    /\ text[1].form = "num" /\ text[1].sep = "-" /\ ~text[1].time
    /\ Digits(text[1].a) = 4 /\ text[1].a >= 1000
    /\ ValidYMD(text[1].a, text[1].b, text[1].c)

\* C18: every record emitted by _process_data carries its release date as an
\* ISO YYYY-MM-DD string, for every raw release-date form of the export:
\* M/D/YY with a time part, M/D/YY without one, M/D/YYYY with or without one,
\* and already-ISO dates.
C18_ReleaseDateIsIso ==
    (/\ seg_pc = "processed"
     /\ \A i \in 1..Len(df) : df[i].releasedate \in ExportDateForms) =>
        \A i \in 1..Len(clean_data.rows) :
            IsIsoText(clean_data.rows[i]["release_date"].v)

\* the table is one form group holding one evaluator block opened by its first row
IsSingleBlock(table) ==
    /\ table # <<>>
    /\ IsRoleRow(table[1])
    /\ table[1].student # <<>>
    /\ ~SkipsFormKey(FormKey(table[1]))
    /\ \A i \in 2..Len(table) :
          /\ ~IsRoleRow(table[i])
          /\ table[i].student = table[1].student
          /\ FormKey(table[i]) = FormKey(table[1])

\* C19: for every row of a block whose question name contains
\* "Professionalism:" (not only when the name equals it) and that carries a
\* rating, the emitted record has the key prof_<slug of the row's
\* rating-question text> set to that rating.
C19_ProfKeyForContainingName ==
    (/\ seg_pc = "processed"
     /\ IsSingleBlock(df)
     /\ Len(clean_data.rows) = 1) =>
        \A i \in 1..Len(df) :
            (/\ Contains(df[i].questionname, <<"Professionalism:">>)
             /\ df[i].rating_answer_sortorder \in DOMAIN IntLiterals
             /\ df[i].ratingscalequestiontext # <<>>) =>
                clean_data.rows[1]["prof_" \o ConvertToKey(df[i].ratingscalequestiontext)]
                    = IntV(IntLiterals[df[i].rating_answer_sortorder])

(***************************************************************************)
(* Claim about the first-to-last change (SpecTrend).                       *)
(***************************************************************************)
\* item i is dated no later (no earlier) than every other parseable item
IsEarliest(items, i) ==
    \A k \in AcceptedItems(items) :
        ~DateLt(AgentParseDate(items[k].date), AgentParseDate(items[i].date))

IsLatest(items, j) ==
    \A k \in AcceptedItems(items) :
        ~DateLt(AgentParseDate(items[j].date), AgentParseDate(items[k].date))

\* C20: with at least two parseable observations the change computed by
\* _calculate_trend_fixed is the value of the latest-dated observation minus
\* the value of the earliest-dated one and the magnitude is
\* min(1.0, |change|/4.0) (both returned rounded to two decimals): the
\* observations dated in between and the recency weights have no effect on
\* the returned direction, change or magnitude.
C20_FirstToLastChange ==
    (/\ trend_by = "agent"
     /\ Cardinality(AcceptedItems(scores_with_dates)) >= 2
     /\ \A i \in 1..Len(scores_with_dates) : scores_with_dates[i].date # NanText) =>
        \E i, j \in AcceptedItems(scores_with_dates) :
            LET earliest == scores_with_dates[i].score
                latest   == scores_with_dates[j].score
                change   == RSub(latest, earliest)
            IN  /\ IsEarliest(scores_with_dates, i)
                /\ IsLatest(scores_with_dates, j)
                /\ trend_result.earliest_score = earliest
                /\ trend_result.most_recent_score = latest
                /\ trend_result.change = Round2(change)
                /\ trend_result.magnitude = Round2(RMin(RInt(1), RDiv(RAbs(change), RInt(4))))
                /\ trend_result.direction =
                       IF RLt(RAbs(change), Rat(3, 10)) THEN "stable"
                       ELSE IF RLt(RInt(0), change) THEN "improving" ELSE "declining"

\* three parseable observations given out of date order, the middle-dated one
\* with a score of its own and a weight of its own, were classified
C20_Witness ==
    /\ trend_by = "agent"
    /\ Len(scores_with_dates) = 3
    /\ scores_with_dates[1].date = DateText("num", "/", 7, 1, 23, FALSE)
    /\ scores_with_dates[2].date = DateText("num", "-", 2023, 4, 1, FALSE)
    /\ scores_with_dates[3].date = DateText("num", "-", 2023, 1, 1, FALSE)
    /\ scores_with_dates[1].score = Rat(13, 10)
    /\ scores_with_dates[2].score = Rat(129, 100)
    /\ scores_with_dates[3].score = RInt(1)
    /\ scores_with_dates[2].weight # scores_with_dates[1].weight
    /\ trend_result.change = Rat(3, 10)
    /\ trend_result.direction = "improving"

(***************************************************************************)
(* Claims about the temporal progression (SpecNumeric).                    *)
(***************************************************************************)
\* the dated records of the analysed table, sorted by date
SortedTemporalData == SortByDate(TemporalData(parsed_data))

\* the temporal analysis ran on the table and split it into two periods
PeriodsTaken ==
    /\ num_pc = "analysed"
    /\ temporal_dimension
    /\ temporal_analysis # AnalysisRaised
    /\ Len(SortedTemporalData) >= 2

PeriodsPartition(records, early, recent) ==
    /\ early \o recent = records
    /\ early # <<>>
    /\ recent # <<>>
    /\ Len(early) = Len(records) \div 2
    /\ Len(records) % 2 = 1 => Len(early) + 1 = Len(recent)
    /\ Len(records) % 2 = 0 => Len(early) = Len(recent)
    /\ \A i \in 1..Len(early) : \A j \in 1..Len(recent) :
          ~DateLt(recent[j].date, early[i].date)

\* C21: with n >= 2 dated records sorted by date, the early period is
\* records[0 : n div 2] and the recent period records[n div 2 : n]: the two
\* are contiguous, disjoint, non-empty and cover all n records, no early
\* record is dated after a recent one, and for odd n the early period is
\* one record shorter.
C21_PeriodsSplitInHalves ==
    PeriodsTaken =>
        /\ PeriodsPartition(SortedTemporalData, EarlyPeriod(SortedTemporalData),
                            RecentPeriod(SortedTemporalData))
        /\ temporal_analysis.total_evaluations
              = Len(EarlyPeriod(SortedTemporalData)) + Len(RecentPeriod(SortedTemporalData))

\* three dated records given out of date order were split one to two
C21_Witness ==
    /\ PeriodsTaken
    /\ Len(SortedTemporalData) = 3
    /\ TemporalData(parsed_data) # SortedTemporalData
    /\ Len(EarlyPeriod(SortedTemporalData)) = 1
    /\ Len(RecentPeriod(SortedTemporalData)) = 2
    /\ DateLt(SortedTemporalData[1].date, SortedTemporalData[2].date)

\* C22: for every change value the direction the temporal progression assigns
\* equals the direction _calculate_trend_fixed assigns to the same change,
\* including at change = 0.3 and change = -0.3.
C22_SameDirectionRule ==
    /\ direction_by = "temporal" =>
          direction = TrendDirection(change_value, AgentStableThreshold)
    /\ direction_by = "trend" => direction = TemporalDirection(change_value)

(***************************************************************************)
(* Claims about the multipliers of the pattern confidence (SpecConfidence).*)
(***************************************************************************)
\* a non-empty evidence list of str labels and str dates was scored
ScoredStrEvidence ==
    /\ text_pc = "scored"
    /\ supporting_evidence # <<>>
    /\ StrLabels(supporting_evidence)
    /\ \A i \in 1..Len(supporting_evidence) : supporting_evidence[i].date # NanText

\* the score three given factors yield for the evidence
ScoreWith(evidence, rotation_factor, temporal_factor, role_factor) ==
    Round3(RMin(RInt(1), RMul(BaseScore(Len(evidence)),
                              RMul(RMul(rotation_factor, temporal_factor), role_factor))))

\* the distinct labels after lower-casing and removing the form prefix, the
\* empty one and "unknown" not counted
NormalizedRotationCount(evidence) ==
    Cardinality({RemoveRun(Lower(evidence[i].rotation.words), FormPrefix) :
                    i \in 1..Len(evidence)} \ {<<>>, <<"unknown">>})

\* C23: the rotation multiplier depends only on k, the number of distinct
\* rotation labels after lower-casing and removing "clinical performance
\* assessment", a label that normalizes to "" or to "unknown" (in any letter
\* case) not counted: k >= 3 gives 1.3, k = 2 gives 1.15, k <= 1 gives 1.0.
C23_RotationFactorByNormalizedCount ==
    ScoredStrEvidence =>
        confidence_info.score =
            ScoreWith(supporting_evidence,
                      RotationMultiplier(NormalizedRotationCount(supporting_evidence)),
                      TemporalMultiplier(supporting_evidence),
                      RoleMultiplier(supporting_evidence))

\* the date strings of the evidence that parse, and their span in days
ParseableDates(evidence) ==
    {t \in UniqueDates(evidence) : TryFormats(t, ConfidenceDateFormats) # NoDate}

SpanDays(dates) ==
    SetMax({ToOrdinal(TryFormats(t, ConfidenceDateFormats)) : t \in dates})
        - SetMin({ToOrdinal(TryFormats(t, ConfidenceDateFormats)) : t \in dates})

FlatBoostOrSpanFactor(evidence) ==
    IF ParseableDates(evidence) = {} THEN Rat(11, 10)
    ELSE IF SpanDays(ParseableDates(evidence)) > 30 THEN Rat(6, 5)
    ELSE IF SpanDays(ParseableDates(evidence)) > 7 THEN Rat(11, 10)
    ELSE RInt(1)

\* C24: with at least 2 distinct non-unknown date strings of which none
\* parses, the temporal step multiplies by exactly 1.1; when at least 2
\* parse, the factor is 1.2 for a span over 30 days, 1.1 for a span over 7
\* days and 1.0 otherwise.
C24_TemporalFactor ==
    (/\ ScoredStrEvidence
     /\ Cardinality(UniqueDates(supporting_evidence)) >= 2
     /\ Cardinality(ParseableDates(supporting_evidence)) # 1) =>
        confidence_info.score =
            ScoreWith(supporting_evidence,
                      RotationMultiplier(Cardinality(UniqueRotations(supporting_evidence))),
                      FlatBoostOrSpanFactor(supporting_evidence),
                      RoleMultiplier(supporting_evidence))

\* the reasons whose rule gave a factor above 1, in the fixed order
ContributingBoosts(evidence) ==
    (IF RLt(RInt(1), RotationMultiplier(Cardinality(UniqueRotations(evidence))))
     THEN <<"cross-rotation consistency">> ELSE <<>>)
    \o (IF RLt(RInt(1), TemporalMultiplier(evidence))
        THEN <<"temporal consistency">> ELSE <<>>)
    \o (IF RLt(RInt(1), RoleMultiplier(evidence)) THEN <<"role diversity">> ELSE <<>>)

\* C25: the description's "(boosted by ...)" suffix names a reason if and
\* only if that rule contributed a multiplier above 1.0 - "cross-rotation
\* consistency", "temporal consistency", "role diversity", in that order -
\* and the suffix is absent when no rule fired.
C25_BoostsNameContributingRules ==
    ScoredStrEvidence =>
        confidence_info.description.boosts = ContributingBoosts(supporting_evidence)

\* a pattern holding the scored evidence with the returned confidence
ScoredPattern ==
    PatternWith(Label(<<"Great", "reasoning">>), supporting_evidence, confidence_info)

\* C27: with the default threshold 0.15 _filter_by_confidence_threshold
\* keeps a scored pattern exactly when it has at least 2 evidence items:
\* with zero or one item the score is below 0.15 whatever the rotation, date
\* and role values are, with 2 or more items it is at least 0.4.
C27_KeptExactlyWithTwoItems ==
    (/\ text_pc = "scored"
     /\ StrLabels(supporting_evidence)) =>
        IF Len(supporting_evidence) >= 2
        THEN /\ RLe(Rat(2, 5), confidence_info.score)
             /\ FilterByConfidenceThreshold(<<ScoredPattern>>) = <<ScoredPattern>>
        ELSE /\ RLt(confidence_info.score, Rat(3, 20))
             /\ FilterByConfidenceThreshold(<<ScoredPattern>>) = <<>>

\* a single item that earns the role boost was scored 0.11, the highest
\* score of a single item, and is dropped
C27_Witness ==
    /\ text_pc = "scored"
    /\ StrLabels(supporting_evidence)
    /\ Len(supporting_evidence) = 1
    /\ confidence_info.score = Rat(11, 100)
    /\ FilterByConfidenceThreshold(<<ScoredPattern>>) = <<>>

\* the record key a rating row is stored under ("" when it is stored nowhere)
RatingKeyOf(row) ==
    IF row.questionname = <<"Professionalism:">>
    THEN IF row.ratingscalequestiontext # <<>>
         THEN "prof_" \o ConvertToKey(row.ratingscalequestiontext) ELSE ""
    ELSE IF \/ Contains(row.questionname, <<"Communication:">>)
            \/ Contains(row.questionname,
                        <<"Advocates for patients", "by addressing", "social determinants">>)
            \/ Contains(row.questionname, <<"CES competency">>)
    THEN CommKey(row.questionname)
    ELSE IF Contains(row.questionname, <<"EPA">>) THEN EpaKey(row.questionname)
    ELSE ""

\* the table is one form group that the form-group loop does not skip
IsOneFormGroup(table) ==
    /\ table # <<>>
    /\ \A i \in 1..Len(table) :
          /\ table[i].student # <<>>
          /\ table[i].student = table[1].student
          /\ FormKey(table[i]) = FormKey(table[1])
    /\ ~SkipsFormKey(FormKey(table[1]))

\* the positions in a block of the rows stored under a key
RowsForKey(block, key) == {i \in 1..Len(block) : RatingKeyOf(block[i]) = key}

LastRowForKey(block, key) ==
    CHOOSE i \in RowsForKey(block, key) : \A j \in RowsForKey(block, key) : j <= i

RatingKeysOf(block) == {RatingKeyOf(block[i]) : i \in 1..Len(block)} \ {""}

\* C26: the record of an evaluator block holds, under every key that several
\* (or one) of its rating rows map to, the value of the last such row in file
\* order, and null when that row's rating cell is blank
C26_LastRatingRowWins ==
    (seg_pc = "processed" /\ IsOneFormGroup(df)) =>
        LET blocks == IdentifyEvaluatorBlocks(df)
        IN  /\ Len(clean_data.rows) = Len(blocks)
            /\ \A k \in 1..Len(blocks) : \A key \in RatingKeysOf(blocks[k]) :
                  clean_data.rows[k][key] =
                      SafeInt(blocks[k][LastRowForKey(blocks[k], key)].rating_answer_sortorder)

\* a block held a rating of 3 for EPA 2 and then a row for EPA 2 with a blank
\* rating cell: the record holds null
C26_Witness ==
    /\ seg_pc = "processed"
    /\ IsOneFormGroup(df)
    /\ Len(df) = 3
    /\ df[1].questionname = RoleQuestion
    /\ RatingKeyOf(df[2]) = "epa2" /\ df[2].rating_answer_sortorder = "3"
    /\ RatingKeyOf(df[3]) = "epa2" /\ df[3].rating_answer_sortorder = ""
    /\ Len(clean_data.rows) = 1
    /\ clean_data.rows[1]["epa2"] = Null

\* the day of the run lies more than 9 months after every record
AllWeightsZero ==
    /\ parsed_data # <<>>
    /\ \A i \in 1..Len(parsed_data) : parsed_data[i].recency_weight = RInt(0)

\* the bounds of a reported field enclose a reported mean
WithinBounds(stats, mean) == RLe(stats.min, mean) /\ RLe(mean, stats.max)

\* C28: for every field reported by _enhanced_fallback_analysis,
\* min <= weighted_avg <= max and min <= raw_avg <= max, whatever recency
\* weights in [0,1] the contributing records have, all weights 0 included
C28_MeansWithinMinMax ==
    (num_pc = "analysed" /\ numeric_analysis # AnalysisRaised) =>
        \A f \in DOMAIN ReportedStats :
            /\ WithinBounds(ReportedStats[f], ReportedStats[f].weighted_avg)
            /\ WithinBounds(ReportedStats[f], ReportedStats[f].raw_avg)

\* the stages called so far, by name
StagesCalled == [i \in 1..Len(stage_log) |-> stage_log[i].stage]

\* the stage that produces a key of the shared memory
ProducerOf(key) ==
    CASE key = "parsed_data"          -> "data_ingestion"
      [] key = "structured_query"     -> "query_understanding"
      [] key = "numeric_analysis"     -> "numeric_analysis"
      [] key = "text_analysis"        -> "text_analysis"
      [] key = "consolidated_summary" -> "consolidation"

ProducedKeys ==
    {"parsed_data", "structured_query", "numeric_analysis", "text_analysis",
     "consolidated_summary"}

\* before the read, the producer of the key had stored a value that is not None
ReadAfterWrite(r) ==
    \E i \in 1..r.at :
        write_log[i] = [stage |-> ProducerOf(r.key), key |-> r.key, null |-> FALSE]

\* the stages are called in the order of run, none twice, and a run that
\* returns has called all six
StagesInOrder ==
    /\ Len(stage_log) <= Len(StageOrder)
    /\ \A i \in 1..Len(stage_log) : StagesCalled[i] = StageOrder[i]
    /\ orch_pc = "returned" => StagesCalled = StageOrder

\* last_response is set only once response generation has returned
LastResponseAfterGeneration ==
    session_memory.last_response # PyNone =>
        /\ StagesCalled = StageOrder
        /\ session_memory.last_response = response

\* C29: run calls each stage once, in the order data ingestion, query
\* understanding, numeric analysis, text analysis, consolidation, response
\* generation; every read of a key that another stage produces follows a
\* write of a non-null value to it by that stage; last_response is set only
\* after response generation returned
C29_StagesInOrderReadWrittenKeys ==
    /\ StagesInOrder
    /\ LastResponseAfterGeneration
    /\ \A r \in read_log : r.key \in ProducedKeys => ReadAfterWrite(r)

\* the stages with an LLM call and a fallback, each with its memory key
FallbackStages ==
    {"query_understanding", "numeric_analysis", "text_analysis", "consolidation"}

\* the LLM call raised, or its answer was no JSON
LlmFailed(entry) == entry.stage \in FallbackStages /\ entry.llm \in {"raises", "prose"}

KeyOf(stage) == CHOOSE key \in ProducedKeys : ProducerOf(key) = stage

\* what the stage's fallback computes from the memory
FallbackResultOf(stage) ==
    CASE stage = "query_understanding" ->
            PyDict(QueryEnhancedFallback(memory["user_query"].words))
      [] stage = "numeric_analysis" ->
            NumericAnalysisOf(LlmRaises, memory["parsed_data"], memory["structured_query"])
      [] stage = "text_analysis" ->
            OrchTextAnalysisOf(LlmRaises, memory["parsed_data"], memory["structured_query"])
      [] stage = "consolidation" ->
            FallbackConsolidation(memory["user_query"], memory["numeric_analysis"],
                                  memory["text_analysis"])

\* the stage of the i-th call stored its fallback result and run went on
FellBackAndWentOn(i) ==
    /\ \E k \in 1..Len(write_log) : write_log[k].stage = stage_log[i].stage
    /\ memory[KeyOf(stage_log[i].stage)] = FallbackResultOf(stage_log[i].stage)
    /\ \/ i < Len(stage_log)
       \/ orch_pc = StageOrder[i + 1]

\* C30: in a run, a stage whose LLM call raises or answers with text that is
\* no JSON does not propagate the error: it stores its fallback result under
\* its key and the run goes on to the next stage
C30_LlmFailureFallsBack ==
    \A i \in 1..Len(stage_log) : LlmFailed(stage_log[i]) => FellBackAndWentOn(i)

====
